---------------------------- MODULE Spec2Model ----------------------------
(***************************************************************************)
(* A model of DU-Mesh-Transformer: the island partitioner of               *)
(* ElementSeparationTransform, the triplanar UV projector                  *)
(* (CreateUvMapsTransform), the RGBA channel reorder of RgbaBuffer and the  *)
(* texture resolution pipeline run by the DuMeshTransformer command queue.  *)
(*                                                                         *)
(* Lengths are integers in units of 0.0001 so that toFixed(3) is a real     *)
(* rounding step.                                                          *)
(***************************************************************************)
EXTENDS Integers, Sequences, FiniteSets, TLC

\* ------------------------------------------------------------------------
\* Generic helpers
\* ------------------------------------------------------------------------

Range(s) == {s[i] : i \in DOMAIN s}

Abs(n) == IF n < 0 THEN -n ELSE n

RECURSIVE SortedSeq(_)
\* The elements of a finite set of integers in ascending order (the order in
\* which JavaScript enumerates integer-like object keys)
SortedSeq(S) ==
  IF S = {} THEN <<>>
  ELSE LET m == CHOOSE x \in S : \A y \in S : x <= y
       IN <<m>> \o SortedSeq(S \ {m})

RECURSIVE AppendNew(_, _)
\* Set.add of each element of cands, in order, to an insertion-ordered Set
AppendNew(s, cands) ==
  IF cands = <<>> THEN s
  ELSE AppendNew(IF Head(cands) \in Range(s) THEN s ELSE Append(s, Head(cands)),
                 Tail(cands))

\* Set.delete on an insertion-ordered Set
Remove(s, x) == SelectSeq(s, LAMBDA y : y # x)

RECURSIVE Concat(_)
Concat(ss) == IF ss = <<>> THEN <<>> ELSE Head(ss) \o Concat(Tail(ss))

RECURSIVE SumOver(_, _)
SumOver(S, f) ==
  IF S = {} THEN 0
  ELSE LET x == CHOOSE y \in S : TRUE IN f[x] + SumOver(S \ {x}, f)

\* ------------------------------------------------------------------------
\* Bounds of the element separation inputs
\* ------------------------------------------------------------------------

\* Largest number of triangles in the index buffer of the default primitive
MaxTriangles == 4

triangleSize == 3

\* Vertex ids of the default primitive
Vertices == 0 .. 9

\* The triangles an index buffer is made of: the two triangles of a quad,
\* which have two vertex ids in common, and two loose triangles
TriangleChoices == {<<0, 1, 2>>, <<1, 2, 3>>, <<4, 5, 6>>, <<7, 8, 9>>}

\* POSITION accessors of the default primitive (units of 0.0001). Vertex v
\* sits on its own grid point <<1000 * v, 0, 0>>, except that vertices 3 and
\* 4 may sit near the grid point of vertex 0 (x = 4 formats as "0.000" like
\* x = 0, x = -4 as "-0.000" and x = 6 as "0.001") and vertex 7 near the grid
\* point of vertex 5, above the one of vertex 0, or on the one of vertex 8
\* (a triangle with two corners at one position)
PositionMaps ==
  {[v \in Vertices |->
      IF v = 3 THEN a ELSE IF v = 4 THEN b ELSE IF v = 7 THEN c
      ELSE <<1000 * v, 0, 0>>] :
     a \in {<<3000, 0, 0>>, <<4, 0, 0>>},
     b \in {<<4000, 0, 0>>, <<-4, 0, 0>>, <<4, 0, 0>>, <<6, 0, 0>>},
     c \in {<<7000, 0, 0>>, <<5004, 0, 0>>, <<0, 6, 0>>, <<8000, 0, 0>>}}

RECURSIVE TriangleLists(_)
\* Lists of n different triangles
TriangleLists(n) ==
  IF n = 0 THEN {<<>>}
  ELSE UNION {{Append(l, t) : t \in TriangleChoices \ Range(l)} : l \in TriangleLists(n - 1)}

\* Index buffers of exactly n different triangles
IndexBuffers(n) == {Concat(l) : l \in TriangleLists(n)}

\* POSITION accessor of the primitive that does not use the default material:
\* a prefix of this list
VoxelPositionList ==
  << <<1, 0, 0>>, <<1000, 0, 0>>, <<2000, 0, 0>>, <<8000, 0, 0>> >>

\* ------------------------------------------------------------------------
\* State of ElementSeparationTransform
\* ------------------------------------------------------------------------
VARIABLES
  pc,                        \* position in ElementSeparationTransform
  primitiveIndices,          \* index buffer of the default primitive
  primitiveVertexPositions,  \* its POSITION accessor, vertex id -> vec3
  otherPositions,            \* POSITION accessor of the other primitive
  voxelVertices,             \* Set<string> of position hashes
  triangleIslands,           \* isolated islands, in discovery order
  triangleVoxelIslands,      \* structural islands, in discovery order
  triangleIdsToProcess,      \* pending triangle ids (insertion-ordered Set)
  islandTriangleIds,         \* island being built
  nextTriangles,             \* frontier (insertion-ordered Set)
  voxelConnections,          \* counter of the island being built
  taken,                     \* history: triangle ids in the order processed
  document,                  \* the glTF document: materials, meshes, nodes, ...
  nodesForIslands,           \* ids of the nodes created for isolated islands
  notified                   \* the WARNING events sent with transformer.notify

\* The document and what the transform keeps about it
docVars == <<document, nodesForIslands, notified>>

sepVars == <<pc, primitiveIndices, primitiveVertexPositions, otherPositions,
             voxelVertices, triangleIslands, triangleVoxelIslands,
             triangleIdsToProcess, islandTriangleIds, nextTriangles,
             voxelConnections, taken, docVars>>

\* State of the document CreateUvMapsTransform works on
VARIABLES
  uvMeshes,                  \* listMeshes(): each mesh a list of primitives
  uvRuns,                    \* history: the swapYZ option of each run so far
  faceNormal,                \* the argument of a getFaceDirection call
  faceDirection              \* what the call returned, <<>> before it returns

uvVars == <<uvMeshes, uvRuns, faceNormal, faceDirection>>

\* State of an RgbaBuffer and of the transformArea call in progress on it
VARIABLES
  rgbaPc,                    \* "idle", "loop" (inside transformArea) or "done"
  rgbaWidth,                 \* this.width
  rgbaHeight,                \* this.height
  rgbaBuffer,                \* this.buffer, 4 bytes per pixel
  rgbaArea,                  \* locals of transformArea
  rgbaOriginal,              \* history: the buffer before the call
  rgbaApplied                \* history: how often the callback ran per pixel index

rgbaVars == <<rgbaPc, rgbaWidth, rgbaHeight, rgbaBuffer, rgbaArea, rgbaOriginal,
              rgbaApplied>>

\* State of a DuMeshTransformer, its document and the file system
VARIABLES
  pipePc,                    \* "idle", or where the saveToFile in progress is
  pendingCommands,           \* this.pendingCommands
  procQueue,                 \* the local copy "queue" of processQueue
  gltfMaterials,             \* listMaterials(): the item id of each material
  materialFiles,             \* materialDefinitions: materialId -> files, in key order
  existingFiles,             \* the texture files present on disk
  cachedTextureFiles,        \* cachedData['texture_files']: file -> texture
  cachedTextures,            \* cachedData['textures']: materialId -> bundle
  docTextures,               \* the textures of the document, by handle
  materialTextures,          \* the textures set on each glTF material
  materialBaseColor,         \* getBaseColorFactor() of each glTF material
  materialHdr,               \* emissive factor and strength of each glTF material
  meshCount,                 \* listMeshes().length of the document
  setupErrors,               \* history: errors thrown by the setup calls
  dataDir,                   \* whether the game installation directory is set
  texLoop,                   \* locals of TexturesTransform and getGameTextures
  calls,                     \* history: one record per saveToFile call
  fileReads,                 \* history: fs.readFile calls per file
  fileDecodes,               \* history: decodes to RGBA per file
  loadCalls,                 \* history: loadTexture calls per materialId
  bundleStats                \* history: per materialId, bundles built and cache hits

pipeVars == <<pipePc, pendingCommands, procQueue, gltfMaterials, materialFiles,
              existingFiles, cachedTextureFiles, cachedTextures, docTextures,
              materialTextures, materialBaseColor, materialHdr, meshCount, setupErrors, dataDir, texLoop, calls, fileReads, fileDecodes, loadCalls,
              bundleStats>>

\* The commands of a transformer with the arguments they carry
VARIABLES
  queuedCommands,            \* this.pendingCommands: fn and args of each command
  applied                    \* history: the argument list of each fn.apply

queueVars == <<queuedCommands, applied>>

\* The cache of a transformer and the rememberMany calls in progress
VARIABLES
  cachedData,                \* this.cachedData: <<category, key>> -> value
  callers,                   \* the rememberMany calls: where each one is
  fnRuns                     \* history: invocations of fn, per <<category, key>>

rememberVars == <<cachedData, callers, fnRuns>>

\* One entry of the index accessor of a rebuilt primitive
VARIABLES
  newTriangleCount,          \* triangles of the islands being rebuilt
  newIndex,                  \* "index" of the setScalar(index, index) call
  newScalar                  \* getScalar(index) of the new accessor afterwards

indexVars == <<newTriangleCount, newIndex, newScalar>>

helperVars == <<queueVars, rememberVars, indexVars>>

vars == <<sepVars, uvVars, rgbaVars, pipeVars, helperVars>>

\* What ElementSeparationTransform leaves alone
nonSepVars == <<uvVars, rgbaVars, pipeVars, helperVars>>

\* What CreateUvMapsTransform leaves alone
nonUvVars == <<sepVars, rgbaVars, pipeVars, helperVars>>

\* What RgbaBuffer leaves alone
nonRgbaVars == <<sepVars, uvVars, pipeVars, helperVars>>

\* What the transformer leaves alone
nonPipeVars == <<sepVars, uvVars, rgbaVars, helperVars>>

\* The part of the state a specification does not use
QueueUnused ==
  /\ queuedCommands = <<>>
  /\ applied = <<>>

RememberUnused ==
  /\ cachedData = <<>>
  /\ callers = <<>>
  /\ fnRuns = <<>>

IndexUnused ==
  /\ newTriangleCount = 0
  /\ newIndex = 0
  /\ newScalar = <<>>

HelpersUnused == QueueUnused /\ RememberUnused /\ IndexUnused

SepUnused ==
  /\ pc = "unused"
  /\ primitiveIndices = <<>>
  /\ primitiveVertexPositions = <<>>
  /\ otherPositions = <<>>
  /\ voxelVertices = {}
  /\ triangleIslands = <<>>
  /\ triangleVoxelIslands = <<>>
  /\ triangleIdsToProcess = <<>>
  /\ islandTriangleIds = {}
  /\ nextTriangles = <<>>
  /\ voxelConnections = 0
  /\ taken = <<>>
  /\ document = <<>>
  /\ nodesForIslands = <<>>
  /\ notified = <<>>

UvUnused ==
  /\ uvMeshes = <<>>
  /\ uvRuns = <<>>
  /\ faceNormal = <<>>
  /\ faceDirection = <<>>

PipeUnused ==
  /\ pipePc = "unused"
  /\ pendingCommands = <<>>
  /\ procQueue = <<>>
  /\ gltfMaterials = <<>>
  /\ materialFiles = <<>>
  /\ existingFiles = {}
  /\ cachedTextureFiles = <<>>
  /\ cachedTextures = <<>>
  /\ docTextures = <<>>
  /\ materialTextures = <<>>
  /\ materialBaseColor = <<>>
  /\ materialHdr = <<>>
  /\ meshCount = 0
  /\ setupErrors = 0
  /\ dataDir = FALSE
  /\ texLoop = <<>>
  /\ calls = <<>>
  /\ fileReads = <<>>
  /\ fileDecodes = <<>>
  /\ loadCalls = <<>>
  /\ bundleStats = <<>>

RgbaUnused ==
  /\ rgbaPc = "unused"
  /\ rgbaWidth = 0
  /\ rgbaHeight = 0
  /\ rgbaBuffer = <<>>
  /\ rgbaArea = <<>>
  /\ rgbaOriginal = <<>>
  /\ rgbaApplied = <<>>

\* Number.prototype.toFixed(3) of one component: sign and rounded magnitude
\* in thousandths; a negative value keeps its "-" even when it rounds to 0
ToFixed3(c) == <<c < 0, (Abs(c) + 5) \div 10>>

getHashFromPosition(position) ==
  <<ToFixed3(position[1]), ToFixed3(position[2]), ToFixed3(position[3])>>

getVertexPositionHash(vertexId) ==
  getHashFromPosition(primitiveVertexPositions[vertexId])

triangleCount == Len(primitiveIndices) \div triangleSize

TriangleIds == 0 .. triangleCount - 1

\* primitiveIndices.getScalar(i), i counted from 0
getScalar(i) == primitiveIndices[i + 1]

\* verticesPerTriangle[t]: the Set of the three index entries of triangle t
verticesPerTriangle(t) ==
  AppendNew(<<>>, <<getScalar(t * triangleSize), getScalar(t * triangleSize + 1),
                    getScalar(t * triangleSize + 2)>>)

\* trianglesPerVertex[v]: triangles are added for i = 0, 1, ...
trianglesPerVertex(v) ==
  SortedSeq({t \in TriangleIds :
               \E o \in 0 .. triangleSize - 1 : getScalar(t * triangleSize + o) = v})

\* The keys of trianglesPerVertex: every vertex id read from the index buffer
UsedVertices == Range(primitiveIndices)

\* verticesPerPosition[hash]
verticesPerPosition(hash) ==
  SortedSeq({v \in UsedVertices : getVertexPositionHash(v) = hash})

\* The hashes added to voxelVertices from the other primitive
IndexedVoxelVertices(positions) ==
  {getHashFromPosition(positions[i]) : i \in DOMAIN positions}

\* triangleVoxelConnections once the loop over the position duplicates of
\* triangleVertexId has finished
triangleVoxelConnections(triangleVertexId) ==
  Cardinality({vertexId \in Range(verticesPerPosition(getVertexPositionHash(triangleVertexId))) :
                 getVertexPositionHash(vertexId) \in voxelVertices})

\* How much processing triangle t adds to voxelConnections
VoxelConnectionsAdded(t) ==
  Cardinality({tv \in Range(verticesPerTriangle(t)) : triangleVoxelConnections(tv) >= 2})

NeighbourTrianglesByIndex(t) ==
  LET vt == verticesPerTriangle(t)
  IN Concat([i \in 1 .. Len(vt) |-> trianglesPerVertex(vt[i])])

\* The triangle ids offered to nextTriangles while triangle t is processed,
\* in the order of the three nested loops
NeighbourTriangles(t) ==
  LET vt == verticesPerTriangle(t)
      PerVertex(tv) ==
        LET vp == verticesPerPosition(getVertexPositionHash(tv))
        IN Concat([j \in 1 .. Len(vp) |-> trianglesPerVertex(vp[j])])
  IN Concat([i \in 1 .. Len(vt) |-> PerVertex(vt[i])])

ShouldQueueGreaterOnly(island, currentTriangleId, nextTriangleId) ==
  nextTriangleId \notin island /\ nextTriangleId > currentTriangleId

\* Every neighbour is queued, taken before or not
ShouldQueueAlways(island, currentTriangleId, nextTriangleId) ==
  nextTriangleId = nextTriangleId

\* The test guarding nextTriangles.add
ShouldQueue(island, currentTriangleId, nextTriangleId) ==
  nextTriangleId \notin island

PendingKept(pending, currentTriangleId) == pending

\* triangleIdsToProcess.delete(currentTriangleId)
PendingAfter(pending, currentTriangleId) == Remove(pending, currentTriangleId)

\* Every island is structural
IsStructuralAlways(connections) == connections >= 0

\* The test that sends a finished island to triangleVoxelIslands
IsStructural(connections) == connections >= 2

\* transformer.getName()
objectName == "Ship"

\* A primitive of the document as loaded: its accessors are the variables
\* primitiveIndices and primitiveVertexPositions (source "default") or
\* otherPositions (source "other")
LoadedPrimitive(source, material) ==
  [name |-> <<>>, material |-> material, source |-> source,
   attributes |-> {"POSITION", "TEXCOORD_0"},
   indices |-> <<>>, positions |-> <<>>, uvs |-> <<>>]

\* The mesh of the document as loaded, with or without the primitive that
\* does not use the default material
LoadedMesh(id, withOther) ==
  [id |-> id, name |-> <<"Hull">>,
   primitives |-> <<LoadedPrimitive("default", "Steel")>>
                  \o (IF withOther THEN <<LoadedPrimitive("other", "Glass")>> ELSE <<>>)]

\* A document whose only mesh has a node, in a scene, with a buffer
FullDocument(materials, withOther) ==
  [materials |-> materials,
   meshes |-> <<LoadedMesh(1, withOther)>>,
   nodes |-> <<[id |-> 2, name |-> <<"Root">>, mesh |-> 1,
               translation |-> <<0, 0, 1000>>, rotation |-> <<7, 0, 0, 7>>]>>,
   scenes |-> <<[children |-> <<2>>]>>,
   buffers |-> 1,
   lastId |-> 2]

\* A document whose only mesh is referenced by no node (its one node has no
\* mesh), and that has no scene or buffer
BareDocument(materials, withOther) ==
  [materials |-> materials,
   meshes |-> <<LoadedMesh(1, withOther)>>,
   nodes |-> <<[id |-> 2, name |-> <<"Root">>, mesh |-> 0,
               translation |-> <<0, 0, 0>>, rotation |-> <<0, 0, 0, 1>>]>>,
   scenes |-> <<>>,
   buffers |-> 0,
   lastId |-> 2]

\* Documents that meet both preconditions
SeparableDocuments(withOther) ==
  {FullDocument(<<"Steel", "Glass">>, withOther),
   BareDocument(<<"Steel", "Glass">>, withOther)}

\* Documents that fail a precondition: no mesh, two meshes, no material
UnseparableDocuments ==
  {[FullDocument(<<"Steel">>, FALSE) EXCEPT !.meshes = <<>>, !.nodes = <<>>,
                                            !.scenes = <<[children |-> <<>>]>>],
   [FullDocument(<<"Steel">>, FALSE) EXCEPT !.meshes = @ \o <<LoadedMesh(3, FALSE)>>,
                                            !.lastId = 3],
   FullDocument(<<>>, FALSE),
   BareDocument(<<>>, FALSE)}

\* The same document with a default primitive that has no TEXCOORD_0
WithoutTexcoord(doc) ==
  [doc EXCEPT !.meshes[1].primitives[1].attributes = {"POSITION"}]

\* The documents that meet both preconditions, with and without TEXCOORD_0 on
\* the default primitive
LoadedDocuments(withOther) ==
  SeparableDocuments(withOther)
  \cup {WithoutTexcoord(doc) : doc \in SeparableDocuments(withOther)}

\* primitive.getAttribute(semantic) is null for an attribute the primitive
\* does not have
HasAttribute(primitive, semantic) == semantic \in primitive.attributes

\* Line 95: the default primitive has a TEXCOORD_0 accessor, so that
\* primitiveVertexUV is not null
HasVertexUV(doc) ==
  \E k \in DOMAIN doc.meshes[1].primitives :
    /\ doc.meshes[1].primitives[k].source = "default"
    /\ HasAttribute(doc.meshes[1].primitives[k], "TEXCOORD_0")

\* TEXCOORD_0 of the default primitive, where it has one
primitiveVertexUV(vertexId) == <<vertexId, 10 + vertexId>>

\* The document as loaded, with the geometry of the default primitive and of
\* the primitive of another material; the transform has not started
Init ==
  /\ pc = "start"
  /\ \/ /\ \E n \in 1 .. MaxTriangles : primitiveIndices \in IndexBuffers(n)
        /\ primitiveVertexPositions \in PositionMaps
        /\ \E n \in 0 .. Len(VoxelPositionList) :
             otherPositions = SubSeq(VoxelPositionList, 1, n)
        /\ document \in LoadedDocuments(otherPositions # <<>>)
     \/ /\ primitiveIndices = <<0, 1, 2>>
        /\ primitiveVertexPositions = [v \in Vertices |-> <<1000 * v, 0, 0>>]
        /\ otherPositions = <<>>
        /\ document \in UnseparableDocuments
  /\ voxelVertices = {}
  /\ triangleIslands = <<>>
  /\ triangleVoxelIslands = <<>>
  /\ triangleIdsToProcess = <<>>
  /\ islandTriangleIds = {}
  /\ nextTriangles = <<>>
  /\ voxelConnections = 0
  /\ taken = <<>>
  /\ nodesForIslands = <<>>
  /\ notified = <<>>
  /\ UvUnused
  /\ RgbaUnused
  /\ PipeUnused
  /\ HelpersUnused

\* listNodes().find(node => node.getMesh() == defaultMesh): the positions in
\* listNodes() of the nodes of the first mesh
NodesOfDefaultMesh(doc) ==
  {k \in DOMAIN doc.nodes : doc.nodes[k].mesh = doc.meshes[1].id}

\* Lines 28-30: the node of the default mesh is found, or created
WithDefaultMeshNode(doc) ==
  IF NodesOfDefaultMesh(doc) # {} THEN doc
  ELSE [doc EXCEPT !.nodes = Append(@, [id |-> doc.lastId + 1, name |-> <<>>,
                                        mesh |-> doc.meshes[1].id,
                                        translation |-> <<0, 0, 0>>,
                                        rotation |-> <<0, 0, 0, 1>>]),
                   !.lastId = @ + 1]

\* The position in listNodes() of defaultMeshNode
defaultMeshNode(doc) ==
  CHOOSE k \in NodesOfDefaultMesh(doc) : \A n \in NodesOfDefaultMesh(doc) : k <= n

\* Line 42: getDefaultScene() || createScene()
WithDefaultScene(doc) ==
  IF doc.scenes # <<>> THEN doc
  ELSE [doc EXCEPT !.scenes = <<[children |-> <<>>]>>]

\* Line 45: listBuffers()[0] || createBuffer()
WithDocumentBuffer(doc) ==
  IF doc.buffers > 0 THEN doc ELSE [doc EXCEPT !.buffers = 1]

\* Lines 49-51: the translation transformMesh applies to a position
Translated(position, baseTranslation) ==
  <<position[1] + baseTranslation[1], position[2] + baseTranslation[2],
    position[3] - baseTranslation[3]>>

\* Lines 52-61: the node is centred, mesh and node take the material's name
WithDefaultNames(doc) ==
  LET node == defaultMeshNode(doc)
      defaultMaterial == doc.materials[1]
  IN [doc EXCEPT !.meshes[1].name = <<defaultMaterial>>,
                 !.nodes[node].name = <<defaultMaterial>>,
                 !.nodes[node].translation = <<0, 0, 0>>]

\* Lines 19-36: a precondition fails; the transform warns and returns. The
\* node of the default mesh is looked up, and created when missing, before
\* the materials are counted
Skip ==
  /\ pc = "start"
  /\ \/ /\ Len(document.meshes) # 1
        /\ UNCHANGED document
     \/ /\ Len(document.meshes) = 1
        /\ Len(document.materials) = 0
        /\ document' = WithDefaultMeshNode(document)
  /\ notified' = Append(notified, "warning")
  /\ pc' = "skipped"
  /\ UNCHANGED <<primitiveIndices, primitiveVertexPositions, otherPositions,
                 voxelVertices, triangleIslands, triangleVoxelIslands,
                 triangleIdsToProcess, islandTriangleIds, nextTriangles,
                 voxelConnections, taken, nodesForIslands>>
  /\ UNCHANGED nonSepVars

\* Lines 25-133: the preconditions hold; node, scene and buffer are found or
\* created, the node's translation is moved into the mesh, the voxel
\* positions are indexed, and the adjacency maps of the default primitive
\* and the pending set are built
IndexPrimitive ==
  /\ pc = "start"
  /\ Len(document.meshes) = 1
  /\ Len(document.materials) # 0
  /\ LET found == WithDefaultMeshNode(document)
         baseTranslation == found.nodes[defaultMeshNode(found)].translation
     IN /\ document' = WithDefaultNames(WithDocumentBuffer(WithDefaultScene(found)))
        /\ primitiveVertexPositions' =
             [v \in DOMAIN primitiveVertexPositions |->
                Translated(primitiveVertexPositions[v], baseTranslation)]
        /\ otherPositions' =
             [k \in DOMAIN otherPositions |->
                Translated(otherPositions[k], baseTranslation)]
  /\ voxelVertices' = IndexedVoxelVertices(otherPositions')
  /\ triangleIdsToProcess' = SortedSeq(TriangleIds)
  /\ pc' = "islands"
  /\ UNCHANGED <<primitiveIndices, triangleIslands, triangleVoxelIslands,
                 islandTriangleIds, nextTriangles, voxelConnections, taken,
                 nodesForIslands, notified>>
  /\ UNCHANGED nonSepVars

\* Lines 134-145: one iteration of the outer loop begins with a seed
NewIsland(seeds) ==
  /\ pc = "islands"
  /\ triangleIdsToProcess # <<>>
  /\ \E seed \in seeds :
       nextTriangles' = <<seed>>
  /\ islandTriangleIds' = {}
  /\ voxelConnections' = 0
  /\ pc' = "frontier"
  /\ UNCHANGED <<primitiveIndices, primitiveVertexPositions, otherPositions,
                 voxelVertices, triangleIslands, triangleVoxelIslands,
                 triangleIdsToProcess, taken>>
  /\ UNCHANGED docVars
  /\ UNCHANGED nonSepVars

\* Lines 146-182: one iteration of the inner loop
ProcessTriangle(choices) ==
  /\ pc = "frontier"
  /\ nextTriangles # <<>>
  /\ \E currentTriangleId \in choices :
       LET island == islandTriangleIds \cup {currentTriangleId}
           offered == SelectSeq(NeighbourTriangles(currentTriangleId),
                                LAMBDA n : ShouldQueue(island, currentTriangleId, n))
       IN /\ islandTriangleIds' = island
          /\ nextTriangles' = AppendNew(Remove(nextTriangles, currentTriangleId), offered)
          /\ triangleIdsToProcess' = PendingAfter(triangleIdsToProcess, currentTriangleId)
          /\ voxelConnections' = voxelConnections + VoxelConnectionsAdded(currentTriangleId)
          /\ taken' = Append(taken, currentTriangleId)
  /\ UNCHANGED <<pc, primitiveIndices, primitiveVertexPositions, otherPositions,
                 voxelVertices, triangleIslands, triangleVoxelIslands>>
  /\ UNCHANGED docVars
  /\ UNCHANGED nonSepVars

\* Lines 184-192: the frontier is empty, the island is classified and stored
FinishIsland ==
  /\ pc = "frontier"
  /\ nextTriangles = <<>>
  /\ IF IsStructural(voxelConnections)
       THEN /\ triangleVoxelIslands' = Append(triangleVoxelIslands, islandTriangleIds)
            /\ UNCHANGED triangleIslands
       ELSE /\ triangleIslands' = Append(triangleIslands, islandTriangleIds)
            /\ UNCHANGED triangleVoxelIslands
  /\ pc' = "islands"
  /\ UNCHANGED <<primitiveIndices, primitiveVertexPositions, otherPositions,
                 voxelVertices, triangleIdsToProcess, islandTriangleIds,
                 nextTriangles, voxelConnections, taken>>
  /\ UNCHANGED docVars
  /\ UNCHANGED nonSepVars

\* Line 134: the pending set is empty, the island loop is over
FinishPartition ==
  /\ pc = "islands"
  /\ triangleIdsToProcess = <<>>
  /\ pc' = "partitioned"
  /\ UNCHANGED <<primitiveIndices, primitiveVertexPositions, otherPositions,
                 voxelVertices, triangleIslands, triangleVoxelIslands,
                 triangleIdsToProcess, islandTriangleIds, nextTriangles,
                 voxelConnections, taken>>
  /\ UNCHANGED docVars
  /\ UNCHANGED nonSepVars

\* [...triangleIds]: the triangles of an island in insertion order, which is
\* the order in which they were taken from the frontier
IslandOrder(island) == SelectSeq(taken, LAMBDA t : t \in island)

\* A value stored into a Uint16Array
Uint16(n) == n % 65536

\* The triangles of the first island only
FirstIslandTriangles(islands) == IslandOrder(islands[1])

\* Lines 216-221: the triangles of the islands, island after island
MergedTriangles(islands) ==
  Concat([k \in DOMAIN islands |-> IslandOrder(islands[k])])

\* A primitive that keeps the index values of the original primitive
PrimitiveWithOriginalIndices(name, material, triangleIdList) ==
  LET newVertexCount == Len(triangleIdList) * triangleSize
      original(index) ==
        getScalar(triangleSize * triangleIdList[(index \div triangleSize) + 1]
                  + (index % triangleSize))
  IN [name |-> name, material |-> material, source |-> "rebuilt",
      attributes |-> {"POSITION", "TEXCOORD_0"},
      indices |-> [k \in 1 .. newVertexCount |-> Uint16(original(k - 1))],
      positions |-> [k \in 1 .. newVertexCount |->
                       primitiveVertexPositions[original(k - 1)]],
      uvs |-> [k \in 1 .. newVertexCount |-> primitiveVertexUV(original(k - 1))]]

\* newPrimitiveIndices after its setScalar(index, index) calls: a Uint16Array
\* of newVertexCount entries
NewPrimitiveIndices(newVertexCount) ==
  [k \in 1 .. newVertexCount |-> Uint16(k - 1)]

\* The primitive rebuilt from a list of triangles: three new vertices per
\* triangle, with position and UV copied from the original vertex of each
\* corner, and the index of each new vertex written at its own place
RebuiltPrimitive(name, material, triangleIdList) ==
  LET newVertexCount == Len(triangleIdList) * triangleSize
      original(index) ==
        getScalar(triangleSize * triangleIdList[(index \div triangleSize) + 1]
                  + (index % triangleSize))
  IN [name |-> name, material |-> material, source |-> "rebuilt",
      attributes |-> {"POSITION", "TEXCOORD_0"},
      indices |-> NewPrimitiveIndices(newVertexCount),
      positions |-> [k \in 1 .. newVertexCount |->
                       primitiveVertexPositions[original(k - 1)]],
      uvs |-> [k \in 1 .. newVertexCount |-> primitiveVertexUV(original(k - 1))]]

\* Lines 195-267: the structural islands are rebuilt as one primitive of the
\* default mesh. Where primitiveVertexUV is null, the getElement of line 234
\* throws a TypeError on the first triangle, before the primitive is created
RebuildVoxelGeometry ==
  /\ pc = "partitioned"
  /\ IF triangleVoxelIslands # <<>>
       THEN IF HasVertexUV(document)
              THEN LET defaultMaterial == document.materials[1]
                       triangleIdList == MergedTriangles(triangleVoxelIslands)
                   IN /\ document' =
                           [document EXCEPT !.meshes[1].primitives =
                              Append(@, RebuiltPrimitive(<<defaultMaterial>>,
                                                         defaultMaterial,
                                                         triangleIdList))]
                      /\ pc' = "voxelsRebuilt"
              ELSE /\ UNCHANGED document
                   /\ pc' = "threw"
       ELSE /\ UNCHANGED document
            /\ pc' = "voxelsRebuilt"
  /\ UNCHANGED <<primitiveIndices, primitiveVertexPositions, otherPositions,
                 voxelVertices, triangleIslands, triangleVoxelIslands,
                 triangleIdsToProcess, islandTriangleIds, nextTriangles,
                 voxelConnections, taken, nodesForIslands, notified>>
  /\ UNCHANGED nonSepVars

\* Lines 269-346: one new mesh and node for the isolated islands, with one
\* primitive per island. Where primitiveVertexUV is null, the getElement of
\* line 316 throws a TypeError on the first triangle of the first island: the
\* mesh and its node are in the document by then, the mesh without primitive
RebuildIslands ==
  /\ pc = "voxelsRebuilt"
  /\ IF triangleIslands # <<>>
       THEN LET defaultMaterial == document.materials[1]
                newMeshName == <<defaultMaterial, " (Isolated)">>
                newMesh ==
                  [id |-> document.lastId + 1,
                   name |-> newMeshName,
                   primitives |->
                     IF HasVertexUV(document)
                       THEN [k \in DOMAIN triangleIslands |->
                               RebuiltPrimitive(
                                 <<defaultMaterial, " (Group ", ToString(k - 1), ")">>,
                                 defaultMaterial, IslandOrder(triangleIslands[k]))]
                       ELSE <<>>]
                newNode ==
                  [id |-> document.lastId + 2,
                   name |-> newMeshName,
                   mesh |-> newMesh.id,
                   translation |-> <<0, 0, 0>>,
                   rotation |-> document.nodes[defaultMeshNode(document)].rotation]
            IN /\ document' =
                    [document EXCEPT !.meshes = Append(@, newMesh),
                                     !.nodes = Append(@, newNode),
                                     !.scenes[1].children = Append(@, newNode.id),
                                     !.lastId = @ + 2]
               /\ nodesForIslands' = Append(nodesForIslands, newNode.id)
               /\ pc' = IF HasVertexUV(document) THEN "islandsRebuilt" ELSE "threw"
       ELSE /\ UNCHANGED <<document, nodesForIslands>>
            /\ pc' = "islandsRebuilt"
  /\ UNCHANGED <<primitiveIndices, primitiveVertexPositions, otherPositions,
                 voxelVertices, triangleIslands, triangleVoxelIslands,
                 triangleIdsToProcess, islandTriangleIds, nextTriangles,
                 voxelConnections, taken, notified>>
  /\ UNCHANGED nonSepVars

\* Line 349: primitive.dispose() of the original default primitive
WithoutDefaultPrimitive(doc) ==
  [doc EXCEPT !.meshes[1].primitives = SelectSeq(@, LAMBDA q : q.source # "default")]

\* Lines 353-356: the node of the default mesh and the nodes of the islands
\* get the object's name in front of their own
Renamed(doc, nodeIds) ==
  [doc EXCEPT !.nodes =
     [k \in DOMAIN doc.nodes |->
        IF doc.nodes[k].id \in nodeIds
          THEN [doc.nodes[k] EXCEPT !.name = <<objectName, ": ">> \o @]
          ELSE doc.nodes[k]]]

\* No mesh is disposed
NotPruned(doc) == doc

\* Lines 359-365: every mesh without primitives is disposed together with
\* the nodes that reference it
Pruned(doc) ==
  LET empty == {doc.meshes[k].id : k \in {n \in DOMAIN doc.meshes :
                                           doc.meshes[n].primitives = <<>>}}
      gone == {doc.nodes[k].id : k \in {n \in DOMAIN doc.nodes :
                                          doc.nodes[n].mesh \in empty}}
  IN [doc EXCEPT !.meshes = SelectSeq(@, LAMBDA mesh : mesh.id \notin empty),
                 !.nodes = SelectSeq(@, LAMBDA node : node.id \notin gone),
                 !.scenes = [k \in DOMAIN doc.scenes |->
                               [children |->
                                  SelectSeq(doc.scenes[k].children,
                                            LAMBDA id : id \notin gone)]]]

\* Lines 348-365: the original primitive is disposed, the nodes are renamed
\* and the empty meshes are removed
CleanUp ==
  /\ pc = "islandsRebuilt"
  /\ LET node == document.nodes[defaultMeshNode(document)].id
     IN document' =
          Pruned(Renamed(WithoutDefaultPrimitive(document),
                         {node} \cup Range(nodesForIslands)))
  /\ pc' = "done"
  /\ UNCHANGED <<primitiveIndices, primitiveVertexPositions, otherPositions,
                 voxelVertices, triangleIslands, triangleVoxelIslands,
                 triangleIdsToProcess, islandTriangleIds, nextTriangles,
                 voxelConnections, taken, nodesForIslands, notified>>
  /\ UNCHANGED nonSepVars

\* values().next().value of an insertion-ordered Set: its first element
First(s) == IF s = <<>> THEN {} ELSE {Head(s)}

Next ==
  \/ Skip
  \/ IndexPrimitive
  \/ NewIsland(First(triangleIdsToProcess))
  \/ ProcessTriangle(First(nextTriangles))
  \/ FinishIsland
  \/ FinishPartition
  \/ RebuildVoxelGeometry
  \/ RebuildIslands
  \/ CleanUp

Spec == Init /\ [][Next]_vars

\* The island search with the seed and the next frontier triangle taken in
\* any order instead of insertion order
NextAnyOrder ==
  \/ IndexPrimitive
  \/ NewIsland(Range(triangleIdsToProcess))
  \/ ProcessTriangle(Range(nextTriangles))
  \/ FinishIsland
  \/ FinishPartition

\* The island search does not read the nodes, scenes or buffers: the
\* documents without them are enough here
InitAnyOrder ==
  /\ Init
  /\ document = BareDocument(<<"Steel", "Glass">>, otherPositions # <<>>)

SpecAnyOrder == InitAnyOrder /\ [][NextAnyOrder]_vars

\* The island search alone, in the order of the code
NextSearch ==
  \/ IndexPrimitive
  \/ NewIsland(First(triangleIdsToProcess))
  \/ ProcessTriangle(First(nextTriangles))
  \/ FinishIsland
  \/ FinishPartition

\* The index buffers of one to four triangles over positions that leave the
\* loose triangle 4-5-6 alone or chain it to the quad, with no voxel
\* reference positions
InitSearch ==
  /\ InitAnyOrder
  /\ otherPositions = <<>>
  /\ primitiveVertexPositions[3] = <<3000, 0, 0>>
  /\ primitiveVertexPositions[4] \in {<<4000, 0, 0>>, <<4, 0, 0>>}
  /\ primitiveVertexPositions[7] = <<7000, 0, 0>>

\* The steps of the outer loop
OuterLoop ==
  \/ IndexPrimitive
  \/ NewIsland(First(triangleIdsToProcess))
  \/ FinishIsland
  \/ FinishPartition

\* Lines 146-149: while the frontier is not empty its first triangle is taken
TakeFirst ==
  /\ pc = "frontier"
  /\ nextTriangles # <<>>
  /\ taken' = Append(taken, Head(nextTriangles))

\* The search is synchronous code: a step of the outer loop that can run
\* does run, and a frontier that is not empty has its first triangle taken
SpecSearch ==
  /\ InitSearch
  /\ [][NextSearch]_vars
  /\ WF_vars(OuterLoop)
  /\ WF_taken(TakeFirst)

\* ------------------------------------------------------------------------
\* Properties of the island partitioner
\* ------------------------------------------------------------------------

\* Structural and isolated islands taken together
AllIslands == triangleVoxelIslands \o triangleIslands

\* The three index entries of triangle t, read from the index buffer
Corners(t) == {primitiveIndices[t * triangleSize + k] : k \in 1 .. triangleSize}

\* The PositionKey of a position: each coordinate formatted to 3 decimals,
\* that is its sign and its magnitude rounded to thousandths
PositionKey(position) ==
  [k \in 1 .. 3 |-> <<position[k] < 0, (Abs(position[k]) + 5) \div 10>>]

\* The PositionKeys of the vertices of triangle t
PositionKeys(t) == {PositionKey(primitiveVertexPositions[v]) : v \in Corners(t)}

\* For each triangle, the triangles that have a vertex with the same
\* PositionKey as one of its vertices
SharePositionKey ==
  LET keys == [t \in TriangleIds |-> PositionKeys(t)]
  IN [t \in TriangleIds |-> {u \in TriangleIds : keys[t] \cap keys[u] # {}}]

RECURSIVE ChainReach(_, _)
\* The triangles joined to a triangle of S by a chain of triangles in which
\* consecutive triangles are related by share
ChainReach(S, share) ==
  LET N == S \cup UNION {share[s] : s \in S}
  IN IF N = S THEN S ELSE ChainReach(N, share)

SameIsland(t1, t2) == \E i \in DOMAIN AllIslands : {t1, t2} \subseteq AllIslands[i]

\* C1: once the island loop has finished, every triangle id belongs to exactly
\* one island of the structural and isolated lists taken together: the islands
\* cover 0..triangleCount-1, and any two islands, whenever discovered, are
\* disjoint.
C1_PartitionCompleteDisjoint ==
  /\ \A i, j \in DOMAIN AllIslands :
        i # j => AllIslands[i] \cap AllIslands[j] = {}
  /\ pc = "partitioned" => UNION Range(AllIslands) = TriangleIds

\* A finished partition with a structural island and an isolated island, one
\* of them found from a later seed
C1_Witness ==
  /\ pc = "partitioned"
  /\ triangleVoxelIslands # <<>>
  /\ triangleIslands # <<>>
  /\ triangleCount = MaxTriangles

\* C2: after the island loop, two triangles are in the same island if and only
\* if a chain of triangles joins them in which consecutive triangles have a
\* vertex with the same PositionKey, whatever the vertex indices.
C2_ConnectivityCorrect ==
  pc = "partitioned" =>
    LET share == SharePositionKey
    IN \A t1, t2 \in TriangleIds :
          SameIsland(t1, t2) <=> t2 \in ChainReach({t1}, share)

\* Two triangles without a common vertex index in one island, and a triangle
\* in another island
C2_Witness ==
  /\ pc = "partitioned"
  /\ \E t1, t2 \in TriangleIds :
        /\ Corners(t1) \cap Corners(t2) = {}
        /\ SameIsland(t1, t2)
        /\ \A v1 \in Corners(t1), v2 \in Corners(t2) :
              primitiveVertexPositions[v1] # primitiveVertexPositions[v2]
  /\ \E t1, t2 \in TriangleIds : ~SameIsland(t1, t2)

\* The islands of the input: the classes of the chain relation
ChainClasses ==
  LET share == SharePositionKey
  IN {ChainReach({t}, share) : t \in TriangleIds}

\* C3: for a fixed primitive and voxel reference set, whatever seed is taken
\* from the pending set and whatever triangle is taken from the frontier, the
\* run ends with the same set of islands and the same classification of each:
\* both are functions of the input alone.
C3_OrderIndependent ==
  pc = "partitioned" =>
    LET classes == ChainClasses
        added == [t \in TriangleIds |-> VoxelConnectionsAdded(t)]
        structural == {c \in classes : IsStructural(SumOver(c, added))}
    IN /\ Range(triangleVoxelIslands) = structural
       /\ Range(triangleIslands) = classes \ structural
       /\ Len(AllIslands) = Cardinality(classes)

\* A finished run that did not follow insertion order: the first seed was not
\* triangle 0 and a larger id was processed before a smaller one of the same
\* island, with islands of both kinds
C3_Witness ==
  /\ pc = "partitioned"
  /\ taken[1] # 0
  /\ \E i, j \in DOMAIN taken :
        i < j /\ taken[i] > taken[j] /\ SameIsland(taken[i], taken[j])
  /\ triangleVoxelIslands # <<>>
  /\ triangleIslands # <<>>

\* The classification rule as the specification states it: a triangle counts
\* when at least 2 of its vertices have a position of the voxel reference set
CountsTowardsVoxels(t) ==
  Cardinality({v \in Corners(t) :
                 \E i \in DOMAIN otherPositions :
                    PositionKey(primitiveVertexPositions[v]) = PositionKey(otherPositions[i])}) >= 2

\* C4: an island is structural iff at least 2 of its triangles have at least
\* 2 of their 3 vertices on a position of the VoxelReferenceSet, else isolated
\* (so a quad of 2 triangles over 4 vertices, 3 of them on voxel positions, is
\* structural).
C4_ClassificationThreshold ==
  pc = "partitioned" =>
    \A i \in DOMAIN AllIslands :
       (i <= Len(triangleVoxelIslands)) <=>
         Cardinality({t \in AllIslands[i] : CountsTowardsVoxels(t)}) >= 2

\* ------------------------------------------------------------------------
\* Properties of the skip, the rebuild and the clean-up
\* ------------------------------------------------------------------------

\* C12: a skip is a no-op: the step that ends in "skipped" leaves the nodes,
\* meshes, primitives, scenes, buffers, names and translations of the
\* document, and the geometry of its primitives, as they were.
C12_SkipIsNoOp ==
  [][pc' = "skipped" =>
       /\ document' = document
       /\ primitiveIndices' = primitiveIndices
       /\ primitiveVertexPositions' = primitiveVertexPositions
       /\ otherPositions' = otherPositions]_vars

\* The primitives of a mesh that the transform has built
RebuiltIn(mesh) == SelectSeq(mesh.primitives, LAMBDA q : q.source = "rebuilt")

\* The meshes of the document with an id, or with a name
MeshesWithId(id) == SelectSeq(document.meshes, LAMBDA mesh : mesh.id = id)
MeshesNamed(name) == SelectSeq(document.meshes, LAMBDA mesh : mesh.name = name)

\* A primitive holds three vertices per triangle of a list, indexed 0, 1, 2,
\* ... in place, vertex 3j+i with the position and the UV of the original
\* vertex at corner i of the j-th triangle of the list
CopiesTriangles(q, triangleIdList) ==
  /\ Len(q.indices) = triangleSize * Len(triangleIdList)
  /\ Len(q.positions) = triangleSize * Len(triangleIdList)
  /\ Len(q.uvs) = triangleSize * Len(triangleIdList)
  /\ \A j \in 0 .. Len(triangleIdList) - 1, i \in 0 .. triangleSize - 1 :
       LET originalVertex ==
             primitiveIndices[triangleSize * triangleIdList[j + 1] + i + 1]
       IN /\ q.indices[triangleSize * j + i + 1] = triangleSize * j + i
          /\ q.positions[triangleSize * j + i + 1] =
               primitiveVertexPositions[originalVertex]
          /\ q.uvs[triangleSize * j + i + 1] = primitiveVertexUV(originalVertex)

\* C15: every rebuilt primitive, made from T triangles, has 3T vertices and
\* the 3T indices 0 .. 3T-1 in order; vertex 3j+i has the position and UV of
\* the original vertex at corner i of the j-th triangle taken; the primitive
\* keeps the default material. The structural primitive takes the triangles
\* of the structural islands island after island, an isolated primitive those
\* of its island.
C15_RebuiltPrimitiveLayout ==
  pc \in {"voxelsRebuilt", "islandsRebuilt", "done"} =>
    \A m \in DOMAIN document.meshes :
      LET mesh == document.meshes[m]
          rebuilt == RebuiltIn(mesh)
      IN /\ \A n \in DOMAIN rebuilt : rebuilt[n].material = document.materials[1]
         /\ mesh.id = 1 =>
              \A n \in DOMAIN rebuilt :
                CopiesTriangles(rebuilt[n], MergedTriangles(triangleVoxelIslands))
         /\ mesh.id # 1 =>
              /\ Len(rebuilt) = Len(triangleIslands)
              /\ \A n \in DOMAIN rebuilt :
                   CopiesTriangles(rebuilt[n], IslandOrder(triangleIslands[n]))

\* A finished run with a structural primitive and an isolated primitive, one
\* of them rebuilt from two triangles or more that share an original vertex
C15_Witness ==
  /\ pc = "done"
  /\ triangleVoxelIslands # <<>>
  /\ triangleIslands # <<>>
  /\ \E m \in DOMAIN document.meshes :
       \E n \in DOMAIN document.meshes[m].primitives :
         /\ document.meshes[m].primitives[n].source = "rebuilt"
         /\ Len(document.meshes[m].primitives[n].indices) >= 2 * triangleSize
  /\ Cardinality(Range(primitiveIndices)) < Len(primitiveIndices)

TwoDisjointPairs ==
  /\ triangleCount = 4
  /\ otherPositions = <<>>
  /\ Cardinality(ChainClasses) = 2
  /\ \A c \in ChainClasses : Cardinality(c) = 2

\* The meshes that the transform created
NewMeshes == SelectSeq(document.meshes, LAMBDA mesh : mesh.id # 1)

\* The run of the scenario found two isolated islands of two triangles and no
\* structural island
TwoIsolatedIslands ==
  /\ triangleVoxelIslands = <<>>
  /\ Len(triangleIslands) = 2
  /\ \A n \in DOMAIN triangleIslands : Cardinality(triangleIslands[n]) = 2

C18_CleanUpLeavesNoDanglingMesh ==
  pc = "done" =>
    LET meshIds == {document.meshes[m].id : m \in DOMAIN document.meshes}
        nodeIds == {document.nodes[k].id : k \in DOMAIN document.nodes}
    IN /\ \A m \in DOMAIN document.meshes :
            /\ document.meshes[m].primitives # <<>>
            /\ \A n \in DOMAIN document.meshes[m].primitives :
                 document.meshes[m].primitives[n].source # "default"
       /\ \A k \in DOMAIN document.nodes :
            document.nodes[k].mesh = 0 \/ document.nodes[k].mesh \in meshIds
       /\ \A c \in DOMAIN document.scenes :
            Range(document.scenes[c].children) \subseteq nodeIds

\* A finished run in which the default mesh was left empty and was pruned
\* together with its node, which the document had from the start
C18_Witness ==
  /\ pc = "done"
  /\ MeshesWithId(1) = <<>>
  /\ NewMeshes # <<>>
  /\ \A k \in DOMAIN document.nodes : document.nodes[k].id # 2

\* C20: the island search terminates. No triangle is taken from the frontier
\* twice, a triangle already in an island is not in the frontier, and the
\* search reaches its end, where the pending set is empty and every triangle
\* has been taken exactly once.
C20_IslandSearchTerminates ==
  /\ [](/\ Cardinality(Range(taken)) = Len(taken)
        /\ Range(nextTriangles) \cap (islandTriangleIds \cup UNION Range(AllIslands)) = {})
  /\ [](pc = "partitioned" =>
          /\ triangleIdsToProcess = <<>>
          /\ Range(taken) = TriangleIds
          /\ Len(taken) = triangleCount)
  /\ <>(pc = "partitioned")

\* The search has ended on four triangles in two islands or more, one of
\* them with two triangles or more
C20_Witness ==
  /\ pc = "partitioned"
  /\ triangleCount = 4
  /\ Len(AllIslands) >= 2
  /\ \E n \in DOMAIN AllIslands : Cardinality(AllIslands[n]) >= 2

\* ------------------------------------------------------------------------
\* CreateUvMapsTransform
\*
\* Positions are integers in units of voxelOffsetSize (0.125 m); a UV value
\* is an integer in units of voxelOffsetSize / textureSizeInMeters (1/16 for
\* the default options), so dividing a projected coordinate by the texture
\* size keeps its number and changes its unit.
\* ------------------------------------------------------------------------

\* Largest number of primitives in the document
MaxPrimitives == 3

\* Largest number of times the transform is run on the document
MaxUvRuns == 2

\* The default voxelOffsetSize, 0.125 m, in position units
voxelOffsetSize == 1

\* The six cardinal directions in the iteration order of Object.values
directions ==
  << <<1, 0, 0>>, <<-1, 0, 0>>, <<0, 1, 0>>, <<0, -1, 0>>, <<0, 0, -1>>, <<0, 0, 1>> >>

Dot(a, b) == a[1] * b[1] + a[2] * b[2] + a[3] * b[3]

RECURSIVE ClosestDirectionLastWins(_, _, _, _)
\* The loop with ">=" in place of ">": the last maximal direction wins
ClosestDirectionLastWins(normal, k, hasBest, best) ==
  IF k > Len(directions) THEN best
  ELSE IF ~hasBest \/ Dot(normal, directions[k]) >= Dot(normal, best)
       THEN ClosestDirectionLastWins(normal, k + 1, TRUE, directions[k])
       ELSE ClosestDirectionLastWins(normal, k + 1, hasBest, best)

RECURSIVE ClosestDirection(_, _, _, _)
\* The loop of getFaceDirection from direction k on; hasBest is FALSE while
\* closestSimilarity is still -Infinity
ClosestDirection(normal, k, hasBest, best) ==
  IF k > Len(directions) THEN best
  ELSE IF ~hasBest \/ Dot(normal, directions[k]) > Dot(normal, best)
       THEN ClosestDirection(normal, k + 1, TRUE, directions[k])
       ELSE ClosestDirection(normal, k + 1, hasBest, best)

getFaceDirection(normal) == ClosestDirection(normal, 1, FALSE, <<0, 0, 0>>)

\* point3d is counted from 1 here: axis x is 1, y is 2 and z is 3
getPlaneCoordinatesFrom3dPoint(point3d, direction, swapYZ, offsetSize) ==
  LET depthAxis == CHOOSE k \in 1 .. 3 :
                     direction[k] # 0 /\ \A j \in 1 .. k - 1 : direction[j] = 0
      axisXYSign == IF swapYZ THEN -1 ELSE 1
      axisX == IF depthAxis = 1 THEN (IF swapYZ THEN 3 ELSE 2) ELSE 1
      axisY == IF depthAxis = 1 THEN (IF swapYZ THEN 2 ELSE 3)
               ELSE IF depthAxis = 2 THEN 3 ELSE 2
      axisXSign == IF swapYZ THEN -1 ELSE 1
      axisYSign == IF depthAxis = 2 /\ swapYZ THEN 1 ELSE -1
      axisXOffset == IF depthAxis = 1 /\ ~swapYZ THEN -2 * offsetSize ELSE 0
      axisYOffset == 0
  IN <<axisXYSign * axisXSign * point3d[axisX] + axisXOffset,
       axisXYSign * axisYSign * point3d[axisY] + axisYOffset>>

\* The UV of one vertex: lines 161-171
VertexUv(position, normal, swapYZ) ==
  LET corrected == <<position[1] - voxelOffsetSize, position[2] + voxelOffsetSize,
                     position[3] - voxelOffsetSize>>
      xy == getPlaneCoordinatesFrom3dPoint(corrected, getFaceDirection(normal),
                                           swapYZ, voxelOffsetSize)
  IN <<xy[1], -xy[2]>>

\* b - a
Subtract(b, a) == <<b[1] - a[1], b[2] - a[2], b[3] - a[3]>>

Cross(a, b) ==
  <<a[2] * b[3] - a[3] * b[2], a[3] * b[1] - a[1] * b[3], a[1] * b[2] - a[2] * b[1]>>

RECURSIVE WriteUvsByTriangleNormal(_, _, _, _)
\* The index buffer walked as in WriteUvs, with the face direction of every
\* corner taken from the normal of the triangle that is being written
WriteUvsByTriangleNormal(uv, primitive, k, swapYZ) ==
  IF k > Len(primitive.indices) THEN uv
  ELSE LET id == primitive.indices[k] + 1
           first == k - ((k - 1) % 3)
           a == primitive.position[primitive.indices[first] + 1]
           c == primitive.position[primitive.indices[first + 1] + 1]
           b == primitive.position[primitive.indices[first + 2] + 1]
           normal == Cross(Subtract(b, a), Subtract(b, c))
       IN WriteUvsByTriangleNormal(
            [uv EXCEPT ![id] = VertexUv(primitive.position[id], normal, swapYZ)],
            primitive, k + 1, swapYZ)

RECURSIVE WriteUvs(_, _, _, _)
\* Lines 149-176: the index buffer is walked entry by entry from entry k and
\* the UV of each vertex id met is set
WriteUvs(uv, primitive, k, swapYZ) ==
  IF k > Len(primitive.indices) THEN uv
  ELSE LET id == primitive.indices[k] + 1
       IN WriteUvs([uv EXCEPT ![id] = VertexUv(primitive.position[id],
                                               primitive.normal[id], swapYZ)],
                   primitive, k + 1, swapYZ)

\* Lines 143-176: a zero-filled accessor with one VEC2 per POSITION element
\* becomes TEXCOORD_0 and is filled triangle by triangle
WithUvMap(primitive, swapYZ) ==
  [primitive EXCEPT
     !.hasUv = TRUE,
     !.uv = WriteUvs([i \in 1 .. Len(primitive.position) |-> <<0, 0>>], primitive, 1, swapYZ)]

HasTexcoordNever(primitive) == FALSE

\* primitive.getAttribute('TEXCOORD_0') at line 131
HasTexcoord(primitive) == primitive.hasUv

RECURSIVE AddUvMaps(_, _, _, _)
\* Lines 128-178: the two nested loops from primitive p of mesh m on; the
\* return at line 132 leaves both
AddUvMaps(meshes, m, p, swapYZ) ==
  IF m > Len(meshes) THEN meshes
  ELSE IF p > Len(meshes[m]) THEN AddUvMaps(meshes, m + 1, 1, swapYZ)
  ELSE IF HasTexcoord(meshes[m][p]) THEN meshes
  ELSE AddUvMaps([meshes EXCEPT ![m][p] = WithUvMap(@, swapYZ)], m, p + 1, swapYZ)

\* fromXRotation by 90 degrees applied to a position or a normal
RotateX(v) == <<v[1], -v[3], v[2]>>

\* Lines 116-125: transformMesh on every mesh
SwapYZ(meshes) ==
  [m \in DOMAIN meshes |->
     [p \in DOMAIN meshes[m] |->
        [meshes[m][p] EXCEPT
           !.position = [i \in DOMAIN @ |-> RotateX(@[i])],
           !.normal = [i \in DOMAIN @ |-> RotateX(@[i])]]]]

\* The primitives a document is made of
PrimitiveChoices ==
  { \* a triangle facing +Z, without UVs
    [hasUv |-> FALSE, uv |-> <<>>, indices |-> <<0, 1, 2>>,
     position |-> << <<0, 0, 0>>, <<8, 0, 0>>, <<0, 8, 0>> >>,
     normal |-> << <<0, 0, 1>>, <<0, 0, 1>>, <<0, 0, 1>> >>],
    \* the same triangle with UVs of its own
    [hasUv |-> TRUE, uv |-> << <<0, 0>>, <<16, 0>>, <<0, 16>> >>, indices |-> <<0, 1, 2>>,
     position |-> << <<0, 0, 0>>, <<8, 0, 0>>, <<0, 8, 0>> >>,
     normal |-> << <<0, 0, 1>>, <<0, 0, 1>>, <<0, 0, 1>> >>],
    \* a quad bent over an edge, without UVs: vertex 1 and 2 are shared by
    \* both triangles, the normals face -X, a +X/+Y tie, -Y and nowhere
    [hasUv |-> FALSE, uv |-> <<>>, indices |-> <<0, 1, 2, 2, 1, 3>>,
     position |-> << <<-8, 0, 4>>, <<0, 0, 4>>, <<0, 8, -4>>, <<3, 5, 7>> >>,
     normal |-> << <<-1, 0, 0>>, <<1, 1, 0>>, <<0, -1, 0>>, <<0, 0, 0>> >>],
    \* the same quad with its two triangles in the other order
    [hasUv |-> FALSE, uv |-> <<>>, indices |-> <<2, 1, 3, 0, 1, 2>>,
     position |-> << <<-8, 0, 4>>, <<0, 0, 4>>, <<0, 8, -4>>, <<3, 5, 7>> >>,
     normal |-> << <<-1, 0, 0>>, <<1, 1, 0>>, <<0, -1, 0>>, <<0, 0, 0>> >>] }

RECURSIVE PrimitiveLists(_)
PrimitiveLists(n) ==
  IF n = 0 THEN {<<>>}
  ELSE {Append(l, x) : l \in PrimitiveLists(n - 1), x \in PrimitiveChoices}

\* The document as loaded: one mesh, or two meshes that split the list of
\* primitives
InitUv ==
  /\ \E n \in 1 .. MaxPrimitives :
       \E l \in PrimitiveLists(n) :
          \E k \in 1 .. n :
             uvMeshes = IF k = n THEN <<l>> ELSE <<SubSeq(l, 1, k), SubSeq(l, k + 1, n)>>
  /\ uvRuns = <<>>
  /\ faceNormal = <<>>
  /\ faceDirection = <<>>
  /\ SepUnused
  /\ RgbaUnused
  /\ PipeUnused
  /\ HelpersUnused

\* One run of CreateUvMapsTransform, queued by withUvMaps with the default
\* texture size and voxel offset
CreateUvMapsTransform ==
  /\ Len(uvRuns) < MaxUvRuns
  /\ \E swapYZ \in BOOLEAN :
       /\ uvMeshes' = AddUvMaps(IF swapYZ THEN SwapYZ(uvMeshes) ELSE uvMeshes, 1, 1, swapYZ)
       /\ uvRuns' = Append(uvRuns, swapYZ)
  /\ UNCHANGED <<faceNormal, faceDirection>>
  /\ UNCHANGED nonUvVars

NextUv == CreateUvMapsTransform

SpecUv == InitUv /\ [][NextUv]_vars

\* All primitives of the document, mesh by mesh
UvPrimitives(meshes) ==
  {mp \in (DOMAIN meshes) \X (1 .. MaxPrimitives) : mp[2] \in DOMAIN meshes[mp[1]]}

\* C5: after CreateUvMapsTransform has run, every primitive of every mesh that
\* had no TEXCOORD_0 has one, with one UV entry per vertex of its POSITION
\* attribute, whatever the order of the primitives and whichever of them
\* already carried UVs.
C5_EveryPrimitiveGetsUvs ==
  uvRuns # <<>> =>
    \A mp \in UvPrimitives(uvMeshes) :
       LET primitive == uvMeshes[mp[1]][mp[2]]
       IN primitive.hasUv /\ Len(primitive.uv) = Len(primitive.position)

\* C6: a primitive that has a TEXCOORD_0 attribute keeps it with unchanged
\* values in every run, and a second run leaves every UV buffer as the first
\* run left it.
C6_NeverOverwritesUvs ==
  [][/\ DOMAIN uvMeshes' = DOMAIN uvMeshes
     /\ \A mp \in UvPrimitives(uvMeshes) :
          LET before == uvMeshes[mp[1]][mp[2]]
              after == uvMeshes'[mp[1]][mp[2]]
          IN /\ before.hasUv => after.hasUv /\ after.uv = before.uv
             /\ uvRuns # <<>> => after.hasUv = before.hasUv /\ after.uv = before.uv]_vars

\* A document with UVs loaded from the file and UVs made by the first run,
\* after its second run
C6_Witness ==
  /\ Len(uvRuns) = 2
  /\ \E a, b \in UvPrimitives(uvMeshes) :
        /\ uvMeshes[a[1]][a[2]].hasUv
        /\ uvMeshes[a[1]][a[2]].uv = << <<0, 0>>, <<16, 0>>, <<0, 16>> >>
        /\ uvMeshes[b[1]][b[2]].hasUv
        /\ Len(uvMeshes[b[1]][b[2]].uv) = 4

\* Largest absolute value of a component of a normal
MaxNormal == 2

\* Normals with small integer components: every sign pattern, ties between
\* two and three directions, and the zero normal
Normals == (-MaxNormal .. MaxNormal) \X (-MaxNormal .. MaxNormal) \X (-MaxNormal .. MaxNormal)

\* A call of getFaceDirection that has not returned
InitFace ==
  /\ faceNormal \in Normals
  /\ faceDirection = <<>>
  /\ uvMeshes = <<>>
  /\ uvRuns = <<>>
  /\ SepUnused
  /\ RgbaUnused
  /\ PipeUnused
  /\ HelpersUnused

\* The call returns
FaceDirectionReturns ==
  /\ faceNormal # <<>>
  /\ faceDirection = <<>>
  /\ faceDirection' = getFaceDirection(faceNormal)
  /\ UNCHANGED <<uvMeshes, uvRuns, faceNormal>>
  /\ UNCHANGED nonUvVars

NextFace == FaceDirectionReturns

SpecFace == InitFace /\ [][NextFace]_vars

\* The places of a direction in the iteration order
PlacesOf(direction) == {k \in DOMAIN directions : directions[k] = direction}

\* C21: getFaceDirection returns one of the six cardinal directions, its dot
\* product with the normal is the highest of the six, and every direction
\* before it in the order +X, -X, +Y, -Y, -Z, +Z has a strictly lower dot
\* product: on a tie the first maximal direction is returned. The zero
\* normal, a six-way tie, is included.
C21_FirstMaximalDirection ==
  faceDirection # <<>> =>
    /\ directions = << <<1, 0, 0>>, <<-1, 0, 0>>, <<0, 1, 0>>, <<0, -1, 0>>,
                       <<0, 0, -1>>, <<0, 0, 1>> >>
    /\ PlacesOf(faceDirection) # {}
    /\ \A k \in DOMAIN directions :
         Dot(faceNormal, directions[k]) <= Dot(faceNormal, faceDirection)
    /\ \A k \in DOMAIN directions :
         (\A p \in PlacesOf(faceDirection) : k < p) =>
           Dot(faceNormal, directions[k]) < Dot(faceNormal, faceDirection)

\* The call has returned +Y for a normal that is as close to +Z as to +Y
C21_Witness ==
  /\ faceNormal = <<0, 1, 1>>
  /\ faceDirection = <<0, 1, 0>>

\* The index buffer with its triangles in reverse order
RECURSIVE ReversedTriangles(_)
ReversedTriangles(indices) ==
  IF Len(indices) < 3 THEN <<>>
  ELSE ReversedTriangles(SubSeq(indices, 4, Len(indices))) \o SubSeq(indices, 1, 3)

\* C22: when a run of CreateUvMapsTransform gives a primitive its UVs, the UV
\* of every vertex id in the index buffer is the projection of that vertex's
\* own position and normal, whichever triangle wrote it last, and walking
\* the triangles in the reverse order fills the same UV buffer.
C22_UvIndependentOfTriangleOrder ==
  [][\A mp \in UvPrimitives(uvMeshes) :
       LET before == uvMeshes[mp[1]][mp[2]]
           after == uvMeshes'[mp[1]][mp[2]]
           swapYZ == uvRuns'[Len(uvRuns')]
           zero == [i \in 1 .. Len(after.position) |-> <<0, 0>>]
       IN (~before.hasUv /\ after.hasUv) =>
            /\ \A k \in DOMAIN after.indices :
                 after.uv[after.indices[k] + 1] =
                   VertexUv(after.position[after.indices[k] + 1],
                            after.normal[after.indices[k] + 1], swapYZ)
            /\ after.uv =
                 WriteUvs(zero, [after EXCEPT !.indices = ReversedTriangles(@)],
                          1, swapYZ)]_vars

\* A run has given UVs to the quad whose two triangles share two vertices,
\* in both orders of its triangles
C22_Witness ==
  /\ uvRuns # <<>>
  /\ \E a, b \in UvPrimitives(uvMeshes) :
        /\ uvMeshes[a[1]][a[2]].indices = <<0, 1, 2, 2, 1, 3>>
        /\ uvMeshes[b[1]][b[2]].indices = <<2, 1, 3, 0, 1, 2>>
        /\ Len(uvMeshes[a[1]][a[2]].uv) = 4
        /\ uvMeshes[b[1]][b[2]].uv = uvMeshes[a[1]][a[2]].uv

\* ------------------------------------------------------------------------
\* RgbaBuffer and the channel reorder of loadTexture
\* ------------------------------------------------------------------------

\* Largest width and height of the image
MaxWidth == 2
MaxHeight == 2

\* The pixels an image is made of
PixelSamples == {<<200, 120, 40, 255>>, <<200, 120, 40, 0>>, <<0, 255, 7, 128>>}

\* The value of a local that holds null
Null == -1

Min(a, b) == IF a < b THEN a ELSE b

RECURSIVE PixelLists(_)
PixelLists(n) ==
  IF n = 0 THEN {<<>>}
  ELSE {l \o px : l \in PixelLists(n - 1), px \in PixelSamples}

getPixelIndex(x, y) == rgbaWidth * (y - 1) + (x - 1)

getPixelOffsetByIndex(index) == index * 4

\* The four bytes at a pixel index (the index is within the buffer)
getPixelByIndex(buffer, index) ==
  LET offset == getPixelOffsetByIndex(index)
  IN <<buffer[offset + 1], buffer[offset + 2], buffer[offset + 3], buffer[offset + 4]>>

\* A store into a Buffer: modulo 256, ignored outside the buffer
StoreByte(buffer, offset, value) ==
  IF offset + 1 \in DOMAIN buffer
    THEN [buffer EXCEPT ![offset + 1] = value % 256]
    ELSE buffer

\* The alpha written by setPixelByIndex: a || 255
AlphaOrDefault(a) == IF a = 0 THEN 255 ELSE a

\* setPixelByIndex with an array colour
setPixelByIndex(buffer, index, rgba) ==
  LET offset == getPixelOffsetByIndex(index)
  IN StoreByte(StoreByte(StoreByte(StoreByte(buffer,
       offset, rgba[1]), offset + 1, rgba[2]), offset + 2, rgba[3]),
       offset + 3, AlphaOrDefault(rgba[4]))

\* The callback of loadTexture for the mrao slot:
\* channels => [channels[2], channels[1], channels[0], channels[3]]
SwapChannels(channels) == <<channels[3], channels[2], channels[1], channels[4]>>

\* An image decoded from a texture file
InitRgba ==
  /\ rgbaPc = "idle"
  /\ rgbaWidth \in 1 .. MaxWidth
  /\ rgbaHeight \in 1 .. MaxHeight
  /\ rgbaBuffer \in PixelLists(rgbaWidth * rgbaHeight)
  /\ rgbaArea = <<>>
  /\ rgbaOriginal = rgbaBuffer
  /\ rgbaApplied = [i \in 0 .. rgbaWidth * rgbaHeight - 1 |-> 0]
  /\ SepUnused
  /\ UvUnused
  /\ PipeUnused
  /\ HelpersUnused

\* transformArea lines 80-85: the bounds and the first values of the loops
EnterArea(x, y, width, height) ==
  [x |-> x, y |-> y, width |-> width, height |-> height,
   finalX |-> Min(x + width, rgbaWidth), finalY |-> Min(y + height, rgbaHeight),
   cX |-> x, cY |-> y, index |-> Null]

\* textureRGBA.transform(callback): transformArea(1, 1, width, height, callback)
Transform ==
  /\ rgbaPc = "idle"
  /\ rgbaArea' = EnterArea(1, 1, rgbaWidth, rgbaHeight)
  /\ rgbaPc' = "loop"
  /\ UNCHANGED <<rgbaWidth, rgbaHeight, rgbaBuffer, rgbaOriginal, rgbaApplied>>
  /\ UNCHANGED nonRgbaVars

\* Lines 85-99: one pixel of the inner loop, then the step to the next column
\* or, at the end of the row, to the next row with index null again
TransformPixel ==
  /\ rgbaPc = "loop"
  /\ rgbaArea.cY <= rgbaArea.finalY
  /\ rgbaArea.cX <= rgbaArea.finalX
  /\ LET index == IF rgbaArea.index # Null /\ rgbaArea.index # 0
                    THEN rgbaArea.index + 1
                    ELSE getPixelIndex(rgbaArea.cX, rgbaArea.cY)
     IN /\ rgbaBuffer' = setPixelByIndex(rgbaBuffer, index,
                                         SwapChannels(getPixelByIndex(rgbaBuffer, index)))
        /\ rgbaApplied' = [rgbaApplied EXCEPT ![index] = @ + 1]
        /\ rgbaArea' = IF rgbaArea.cX + 1 <= rgbaArea.finalX
                         THEN [rgbaArea EXCEPT !.cX = @ + 1, !.index = index]
                         ELSE [rgbaArea EXCEPT !.cX = rgbaArea.x, !.cY = @ + 1,
                                               !.index = Null]
  /\ UNCHANGED <<rgbaPc, rgbaWidth, rgbaHeight, rgbaOriginal>>
  /\ UNCHANGED nonRgbaVars

\* Line 83: the row loop ends
LeaveArea ==
  /\ rgbaPc = "loop"
  /\ rgbaArea.cY > rgbaArea.finalY
  /\ rgbaPc' = "done"
  /\ UNCHANGED <<rgbaWidth, rgbaHeight, rgbaBuffer, rgbaArea, rgbaOriginal, rgbaApplied>>
  /\ UNCHANGED nonRgbaVars

NextRgba == Transform \/ TransformPixel \/ LeaveArea

SpecRgba == InitRgba /\ [][NextRgba]_vars

\* An image whose pixels all differ, one for each width and height
InitArea ==
  /\ rgbaPc = "idle"
  /\ rgbaWidth \in 1 .. MaxWidth
  /\ rgbaHeight \in 1 .. MaxHeight
  /\ rgbaBuffer = [k \in 1 .. 4 * rgbaWidth * rgbaHeight |->
                     IF k % 4 = 0 THEN 255 ELSE k]
  /\ rgbaArea = <<>>
  /\ rgbaOriginal = rgbaBuffer
  /\ rgbaApplied = [i \in 0 .. rgbaWidth * rgbaHeight - 1 |-> 0]
  /\ SepUnused
  /\ UvUnused
  /\ PipeUnused
  /\ HelpersUnused

\* transformArea(x, y, width, height, callback) for a top-left pixel of the
\* image and a size of at least one pixel each way
TransformArea(x, y, width, height) ==
  /\ rgbaPc = "idle"
  /\ rgbaArea' = EnterArea(x, y, width, height)
  /\ rgbaPc' = "loop"
  /\ UNCHANGED <<rgbaWidth, rgbaHeight, rgbaBuffer, rgbaOriginal, rgbaApplied>>
  /\ UNCHANGED nonRgbaVars

NextArea ==
  \/ \E x \in 1 .. rgbaWidth, y \in 1 .. rgbaHeight,
        width \in 1 .. MaxWidth, height \in 1 .. MaxHeight :
       TransformArea(x, y, width, height)
  \/ TransformPixel
  \/ LeaveArea

SpecArea == InitArea /\ [][NextArea]_vars

\* C7: the reorder step maps every pixel (c0, c1, c2, c3) of the buffer to
\* (c2, c1, c0, c3), for every value of each channel, each pixel being
\* transformed exactly once.
C7_ChannelSwap ==
  rgbaPc = "done" =>
    \A i \in 0 .. rgbaWidth * rgbaHeight - 1 :
       LET before == getPixelByIndex(rgbaOriginal, i)
       IN /\ getPixelByIndex(rgbaBuffer, i) = <<before[3], before[2], before[1], before[4]>>
          /\ rgbaApplied[i] = 1


(***************************************************************************)
(* DuMeshTransformer: the command queue, saveToFile, BaseColorsTransform   *)
(* and TexturesTransform with its two caches.                              *)
(***************************************************************************)

\* Calls of queue() over the life of one transformer
MaxQueued == 3

\* Calls of saveToFile() over the life of one transformer
MaxSaves == 2

\* The queued commands: two transforms of the library, and a custom
\* transform given to queueTransform whose function throws
Commands == {"withBaseColors", "withTextures", "queueTransform"}

MaterialIds == {"Steel", "Iron"}

\* materialDefinitions.items[materialId].files of each material, in key order
SteelFiles ==
  { << [type |-> "normal", file |-> "a.png"] >>,
    << [type |-> "mrao", file |-> "a.png"] >>,
    << [type |-> "normal", file |-> "a.png"], [type |-> "mrao", file |-> "b.dds"] >> }

IronFiles ==
  { << [type |-> "normal", file |-> "a.png"] >>,
    << [type |-> "color", file |-> "a.png"] >>,
    << [type |-> "color", file |-> "b.dds"], [type |-> "mrao", file |-> "a.png"] >> }

\* materialDefinitions.items[materialId].albedo, empty where there is none
albedo == [Steel |-> <<8, 2, 2>>, Iron |-> <<>>]

\* The item ids of the materials of the document, in listMaterials() order
GltfMaterialLists ==
  { <<"Steel", "Iron">>, <<"Iron", "Steel">>, <<"Steel", "Unknown", "Steel">> }

FileSets == { {"a.png", "b.dds"}, {"a.png"} }

\* The base colour factor a material is read with: alpha 0 on the first
InitialBaseColor(i) == <<10, 10, 10, IF i = 1 THEN 0 ELSE 5>>

\* The emissive factor a material is read with, none on the first, and no
\* KHR_materials_emissive_strength extension (strength 0)
InitialHdr(i) ==
  [emissiveFactor |-> IF i = 1 THEN <<0, 0, 0>> ELSE <<0, 3, 0>>, strength |-> 0]

NoTextures ==
  [baseColor |-> Null, normal |-> Null, metallicRoughness |-> Null,
   occlusion |-> Null, emissive |-> Null]

InitPipeline ==
  /\ pipePc = "idle"
  /\ pendingCommands = <<>>
  /\ procQueue = <<>>
  /\ gltfMaterials \in GltfMaterialLists
  /\ \E steel \in SteelFiles, iron \in IronFiles :
       materialFiles = [Steel |-> steel, Iron |-> iron]
  /\ existingFiles \in FileSets
  /\ cachedTextureFiles = <<>>
  /\ cachedTextures = <<>>
  /\ docTextures = <<>>
  /\ materialTextures = [i \in 1 .. Len(gltfMaterials) |-> NoTextures]
  /\ materialBaseColor = [i \in 1 .. Len(gltfMaterials) |-> InitialBaseColor(i)]
  /\ materialHdr = [i \in 1 .. Len(gltfMaterials) |-> InitialHdr(i)]
  /\ meshCount = 1
  /\ setupErrors = 0
  /\ dataDir \in BOOLEAN
  /\ texLoop = <<>>
  /\ calls = <<>>
  /\ fileReads = [f \in {"a.png", "b.dds"} |-> 0]
  /\ fileDecodes = [f \in {"a.png", "b.dds"} |-> 0]
  /\ loadCalls = [m \in MaterialIds |-> 0]
  /\ bundleStats = [m \in MaterialIds |->
                      [begun |-> 0, built |-> 0, aborted |-> 0, hits |-> 0]]
  /\ SepUnused
  /\ UvUnused
  /\ RgbaUnused
  /\ HelpersUnused

\* getGameMaterialFromItemId: the materialId defined for an item id, as a
\* sequence that is empty where the code returns null
getGameMaterialFromItemId(itemId) ==
  IF itemId \in DOMAIN materialFiles THEN <<itemId>> ELSE <<>>

RECURSIVE PairsUntilMiss(_)
\* The pairs up to the first material that has no game material
PairsUntilMiss(i) ==
  IF i > Len(gltfMaterials) THEN <<>>
  ELSE LET gameMaterial == getGameMaterialFromItemId(gltfMaterials[i])
       IN IF gameMaterial = <<>> THEN <<>>
          ELSE << [material |-> i, gameMaterial |-> gameMaterial[1]] >>
               \o PairsUntilMiss(i + 1)

RECURSIVE PairsFrom(_)
PairsFrom(i) ==
  IF i > Len(gltfMaterials) THEN <<>>
  ELSE LET gameMaterial == getGameMaterialFromItemId(gltfMaterials[i])
       IN (IF gameMaterial = <<>> THEN <<>>
           ELSE << [material |-> i, gameMaterial |-> gameMaterial[1]] >>)
          \o PairsFrom(i + 1)

\* The materials that have a game material, in document order
getGltfMaterialsWithGameMaterials == PairsFrom(1)

\* The record of the saveToFile call in progress
UpdateCall(f) == [calls EXCEPT ![Len(calls)] = f]

Notified(call, event) == [call EXCEPT !.events = Append(@, event)]

QueuedSoFar == Len(pendingCommands) + SumOver(DOMAIN calls, [k \in DOMAIN calls |-> Len(calls[k].queue)])


\* queue(): pushes one command; callers may queue at any time
Queue(command) ==
  /\ pipePc # "unused"
  /\ QueuedSoFar < MaxQueued
  /\ pendingCommands' = Append(pendingCommands, command)
  /\ UNCHANGED <<pipePc, procQueue, gltfMaterials, materialFiles, existingFiles,
                 cachedTextureFiles, cachedTextures, docTextures, materialTextures,
                 materialBaseColor, materialHdr, meshCount, setupErrors, dataDir, texLoop, calls, fileReads, fileDecodes,
                 loadCalls, bundleStats>>
  /\ UNCHANGED nonPipeVars

\* saveToFile with a processQueue that copies the pending commands and leaves
\* them pending
SaveToFileKeepsPending ==
  /\ pipePc = "idle"
  /\ Len(calls) < MaxSaves
  /\ calls' = Append(calls, [queue |-> pendingCommands, started |-> 0,
                             settled |-> 0, ran |-> <<>>,
                             threw |-> FALSE, result |-> "pending", outputs |-> 0,
                             events |-> <<"transform_start">>])
  /\ procQueue' = pendingCommands
  /\ pipePc' = "queue"
  /\ UNCHANGED <<pendingCommands, gltfMaterials, materialFiles, existingFiles,
                 cachedTextureFiles, cachedTextures, docTextures, materialTextures,
                 materialBaseColor, materialHdr, meshCount, setupErrors, dataDir,
                 texLoop, fileReads, fileDecodes, loadCalls, bundleStats>>
  /\ UNCHANGED nonPipeVars

\* saveToFile up to the loop of processQueue: notifies the start, copies the
\* pending commands and clears them
SaveToFile ==
  /\ pipePc = "idle"
  /\ Len(calls) < MaxSaves
  /\ calls' = Append(calls, [queue |-> pendingCommands, started |-> 0,
                             settled |-> 0, ran |-> <<>>,
                             threw |-> FALSE, result |-> "pending", outputs |-> 0,
                             events |-> <<"transform_start">>])
  /\ procQueue' = pendingCommands
  /\ pendingCommands' = <<>>
  /\ pipePc' = "queue"
  /\ UNCHANGED <<gltfMaterials, materialFiles, existingFiles, cachedTextureFiles,
                 cachedTextures, docTextures, materialTextures, materialBaseColor, materialHdr, meshCount,
                 setupErrors, dataDir, texLoop, fileReads, fileDecodes, loadCalls, bundleStats>>
  /\ UNCHANGED nonPipeVars

\* The loop of processQueue is about to take a command, or an awaited
\* command is still running
AtLoopHeadOrAwaiting == pipePc \in {"queue", "textures", "bundle"}

\* The loop of processQueue is about to take a command: no awaited command
\* is running
AtLoopHead == pipePc = "queue"

\* A command is taken from the local queue and its function is applied
Started(call) ==
  [call EXCEPT !.started = @ + 1, !.ran = Append(@, Head(procQueue))]

\* The promise of the command that was applied has settled
Settled(call) == [call EXCEPT !.settled = @ + 1]

\* The awaited function returned and the rest of the local queue is dropped
CommandDropsQueue ==
  /\ procQueue' = <<>>
  /\ pipePc' = "queue"
  /\ texLoop' = <<>>

\* The awaited function returned: the next command, if any, follows
CommandDone ==
  /\ procQueue' = Tail(procQueue)
  /\ pipePc' = "queue"
  /\ texLoop' = <<>>

\* An exception leaves the awaited function, and transform_next is sent for
\* the command all the same
ThrowAfterNext(call) ==
  /\ calls' = UpdateCall([Notified(Settled(call), "transform_next")
                            EXCEPT !.threw = TRUE, !.result = "rejected"])
  /\ procQueue' = <<>>
  /\ pipePc' = "idle"
  /\ texLoop' = <<>>

\* An exception leaves the awaited function: nothing catches it in
\* processQueue or in saveToFile, whose promise rejects
Throw(call) ==
  /\ calls' = UpdateCall([Settled(call) EXCEPT !.threw = TRUE, !.result = "rejected"])
  /\ procQueue' = <<>>
  /\ pipePc' = "idle"
  /\ texLoop' = <<>>

\* The base colour BaseColorsTransform sets on a material
materialBaseColorOf(gameMaterial, current) ==
  (IF albedo[gameMaterial] = <<>> THEN <<10, 10, 10>> ELSE albedo[gameMaterial])
  \o << IF current[4] = 0 THEN 10 ELSE current[4] >>

\* BaseColorsTransform: has no await, so it runs as one step
RunBaseColors ==
  /\ AtLoopHead
  /\ procQueue # <<>>
  /\ Head(procQueue) = "withBaseColors"
  /\ LET pairs == getGltfMaterialsWithGameMaterials
         paired == {pairs[k].material : k \in DOMAIN pairs}
         gameMaterialOf(i) == gltfMaterials[i]
     IN materialBaseColor' =
          [i \in DOMAIN materialBaseColor |->
             IF i \in paired
               THEN materialBaseColorOf(gameMaterialOf(i), materialBaseColor[i])
               ELSE materialBaseColor[i]]
  /\ calls' = UpdateCall(Notified(Settled(Started(calls[Len(calls)])),
                                   "transform_next"))
  /\ CommandDone
  /\ UNCHANGED <<pendingCommands, gltfMaterials, materialFiles, existingFiles,
                 cachedTextureFiles, cachedTextures, docTextures, materialTextures,
                 materialHdr, meshCount, setupErrors, dataDir, fileReads,
                 fileDecodes, loadCalls, bundleStats>>
  /\ UNCHANGED nonPipeVars

\* A custom transform whose function throws
RunThrowingTransform ==
  /\ AtLoopHead
  /\ procQueue # <<>>
  /\ Head(procQueue) = "queueTransform"
  /\ Throw(Started(calls[Len(calls)]))
  /\ UNCHANGED <<pendingCommands, gltfMaterials, materialFiles, existingFiles,
                 cachedTextureFiles, cachedTextures, docTextures, materialTextures,
                 materialBaseColor, materialHdr, meshCount, setupErrors, dataDir, fileReads, fileDecodes, loadCalls,
                 bundleStats>>
  /\ UNCHANGED nonPipeVars


\* TexturesTransform is entered: the pairs are listed and the loop starts
BeginTextures ==
  /\ AtLoopHead
  /\ procQueue # <<>>
  /\ Head(procQueue) = "withTextures"
  /\ calls' = UpdateCall(Started(calls[Len(calls)]))
  /\ texLoop' = [pairs |-> getGltfMaterialsWithGameMaterials, i |-> 1, j |-> 0,
                 textureData |-> <<>>]
  /\ pipePc' = "textures"
  /\ UNCHANGED <<pendingCommands, procQueue, gltfMaterials, materialFiles,
                 existingFiles, cachedTextureFiles, cachedTextures, docTextures,
                 materialTextures, materialBaseColor, materialHdr, meshCount, setupErrors, dataDir, fileReads,
                 fileDecodes, loadCalls, bundleStats>>
  /\ UNCHANGED nonPipeVars

\* textures[type] of a bundle: Null stands for undefined
TextureOf(textures, type) ==
  IF type \in DOMAIN textures THEN textures[type] ELSE Null

\* The five setters of TexturesTransform
ApplyTextures(textures) ==
  [baseColor |-> TextureOf(textures, "color"),
   normal |-> TextureOf(textures, "normal"),
   metallicRoughness |-> TextureOf(textures, "mrao"),
   occlusion |-> TextureOf(textures, "mrao"),
   emissive |-> TextureOf(textures, "emissive")]

\* rememberMany('textures', materialId, fn) never calls fn
BundleAlwaysMissing(materialId) == FALSE

\* rememberMany('textures', materialId, fn): whether the entry is defined
BundleCached(materialId) == materialId \in DOMAIN cachedTextures

\* getGameTextures of the next pair: a cached bundle is applied at once,
\* otherwise the bundle is built, which needs the data directory
ResolveMaterial ==
  /\ pipePc = "textures"
  /\ texLoop.i <= Len(texLoop.pairs)
  /\ LET pair == texLoop.pairs[texLoop.i]
         materialId == pair.gameMaterial
     IN IF BundleCached(materialId)
          THEN /\ materialTextures' =
                    [materialTextures EXCEPT ![pair.material] =
                       ApplyTextures(cachedTextures[materialId])]
               /\ bundleStats' = [bundleStats EXCEPT ![materialId].hits = @ + 1]
               /\ texLoop' = [texLoop EXCEPT !.i = @ + 1]
               /\ UNCHANGED <<pipePc, procQueue, calls>>
          ELSE IF ~dataDir
            THEN /\ Throw(calls[Len(calls)])
                 /\ bundleStats' = [bundleStats EXCEPT ![materialId].begun = @ + 1,
                                                       ![materialId].aborted = @ + 1]
                 /\ UNCHANGED materialTextures
            ELSE /\ texLoop' = [texLoop EXCEPT !.j = 1, !.textureData = <<>>]
                 /\ pipePc' = "bundle"
                 /\ bundleStats' = [bundleStats EXCEPT ![materialId].begun = @ + 1]
                 /\ UNCHANGED <<procQueue, calls, materialTextures>>
  /\ UNCHANGED <<pendingCommands, gltfMaterials, materialFiles, existingFiles,
                 cachedTextureFiles, cachedTextures, docTextures, materialBaseColor, materialHdr, meshCount,
                 setupErrors, dataDir, fileReads, fileDecodes, loadCalls>>
  /\ UNCHANGED nonPipeVars

\* rememberMany('texture_files', textureFile) finds nothing
TextureFileAlwaysMissing(textureFile) == FALSE

\* rememberMany('texture_files', textureFile): whether a texture is cached
TextureFileCached(textureFile) == textureFile \in DOMAIN cachedTextureFiles

\* fileExists(textureFile) answers yes
fileAlwaysExists(textureFile) == TRUE

\* fileExists(textureFile)
fileExists(textureFile) == textureFile \in existingFiles

\* Whether loadTexture decodes the bytes to RGBA
Decodes(textureType) == textureType # "normal" \/ textureType = "mrao"

\* One loadTexture call of the bundle being built
LoadTexture ==
  /\ pipePc = "bundle"
  /\ LET pair == texLoop.pairs[texLoop.i]
         materialId == pair.gameMaterial
         files == materialFiles[materialId]
     IN /\ texLoop.j <= Len(files)
        /\ LET textureType == files[texLoop.j].type
               textureFile == files[texLoop.j].file
               newTexture == Len(docTextures) + 1
           IN /\ loadCalls' = [loadCalls EXCEPT ![materialId] = @ + 1]
              /\ IF TextureFileCached(textureFile)
                   THEN /\ docTextures' =
                             [docTextures EXCEPT
                                ![cachedTextureFiles[textureFile]].type = textureType]
                        /\ texLoop' =
                             [texLoop EXCEPT
                                !.j = @ + 1,
                                !.textureData =
                                   (textureType :> cachedTextureFiles[textureFile]) @@ @]
                        /\ UNCHANGED <<pipePc, procQueue, calls, cachedTextureFiles,
                                       fileReads, fileDecodes, bundleStats>>
                   ELSE IF ~fileExists(textureFile)
                     THEN /\ Throw(calls[Len(calls)])
                          /\ bundleStats' =
                               [bundleStats EXCEPT ![materialId].aborted = @ + 1]
                          /\ UNCHANGED <<docTextures, cachedTextureFiles, fileReads,
                                         fileDecodes>>
                     ELSE /\ fileReads' = [fileReads EXCEPT ![textureFile] = @ + 1]
                          /\ fileDecodes' =
                               [fileDecodes EXCEPT
                                  ![textureFile] =
                                     IF Decodes(textureType) THEN @ + 1 ELSE @]
                          /\ docTextures' =
                               Append(docTextures,
                                      [file |-> textureFile,
                                       type |-> textureType,
                                       loadedAs |-> textureType,
                                       decoded |-> Decodes(textureType),
                                       swapped |-> textureType = "mrao"])
                          /\ cachedTextureFiles' =
                               (textureFile :> newTexture) @@ cachedTextureFiles
                          /\ texLoop' =
                               [texLoop EXCEPT
                                  !.j = @ + 1,
                                  !.textureData = (textureType :> newTexture) @@ @]
                          /\ UNCHANGED <<pipePc, procQueue, calls, bundleStats>>
  /\ UNCHANGED <<pendingCommands, gltfMaterials, materialFiles, existingFiles,
                 cachedTextures, materialTextures, materialBaseColor, materialHdr, meshCount, setupErrors, dataDir>>
  /\ UNCHANGED nonPipeVars

\* The bundle is complete: rememberMany stores it and the setters apply it
FinishBundle ==
  /\ pipePc = "bundle"
  /\ LET pair == texLoop.pairs[texLoop.i]
         materialId == pair.gameMaterial
     IN /\ texLoop.j > Len(materialFiles[materialId])
        /\ cachedTextures' = (materialId :> texLoop.textureData) @@ cachedTextures
        /\ bundleStats' = [bundleStats EXCEPT ![materialId].built = @ + 1]
        /\ materialTextures' =
             [materialTextures EXCEPT ![pair.material] =
                ApplyTextures(texLoop.textureData)]
  /\ texLoop' = [texLoop EXCEPT !.i = @ + 1, !.j = 0, !.textureData = <<>>]
  /\ pipePc' = "textures"
  /\ UNCHANGED <<pendingCommands, procQueue, gltfMaterials, materialFiles,
                 existingFiles, cachedTextureFiles, docTextures, materialBaseColor, materialHdr, meshCount,
                 setupErrors, dataDir, calls, fileReads, fileDecodes, loadCalls>>
  /\ UNCHANGED nonPipeVars

\* TexturesTransform returns after the last pair
FinishTextures ==
  /\ pipePc = "textures"
  /\ texLoop.i > Len(texLoop.pairs)
  /\ calls' = UpdateCall(Notified(Settled(calls[Len(calls)]), "transform_next"))
  /\ CommandDone
  /\ UNCHANGED <<pendingCommands, gltfMaterials, materialFiles, existingFiles,
                 cachedTextureFiles, cachedTextures, docTextures, materialTextures,
                 materialBaseColor, materialHdr, meshCount, setupErrors, dataDir, fileReads, fileDecodes, loadCalls,
                 bundleStats>>
  /\ UNCHANGED nonPipeVars

\* processQueue returns and saveToFile writes the document
WriteFile ==
  /\ AtLoopHead
  /\ procQueue = <<>>
  /\ calls' = UpdateCall([Notified(calls[Len(calls)], "transform_finish")
                            EXCEPT !.result = "resolved", !.outputs = @ + 1])
  /\ pipePc' = "idle"
  /\ UNCHANGED <<pendingCommands, procQueue, gltfMaterials, materialFiles,
                 existingFiles, cachedTextureFiles, cachedTextures, docTextures,
                 materialTextures, materialBaseColor, materialHdr, meshCount, setupErrors, dataDir, texLoop, fileReads,
                 fileDecodes, loadCalls, bundleStats>>
  /\ UNCHANGED nonPipeVars

NextPipeline ==
  \/ \E command \in Commands : Queue(command)
  \/ SaveToFile
  \/ RunBaseColors
  \/ RunThrowingTransform
  \/ BeginTextures
  \/ ResolveMaterial
  \/ LoadTexture
  \/ FinishBundle
  \/ FinishTextures
  \/ WriteFile

SpecPipeline == InitPipeline /\ [][NextPipeline]_vars


\* ------------------------------------------------------------------------
\* The transformer with all of its material transforms, on documents that
\* element separation skips
\* ------------------------------------------------------------------------

\* Calls of setGameInstallationDirectory that throw
MaxSetupErrors == 1

TransformCommands == Commands \cup {"withHdrEmissive", "withSeparatedElements"}

\* materialDefinitions.items[materialId].category
category == [Steel |-> "metal", Iron |-> "emissive"]

\* The documents: the item ids of the materials and the number of meshes
TransformDocuments ==
  { [materials |-> <<"Steel", "Unknown", "Iron">>, meshes |-> 2],
    [materials |-> <<"Unknown", "Iron">>, meshes |-> 0],
    [materials |-> <<>>, meshes |-> 1] }

InitTransforms ==
  /\ pipePc = "idle"
  /\ pendingCommands = <<>>
  /\ procQueue = <<>>
  /\ \E doc \in TransformDocuments :
       /\ gltfMaterials = doc.materials
       /\ meshCount = doc.meshes
  /\ materialFiles =
       [Steel |-> << [type |-> "normal", file |-> "a.png"],
                     [type |-> "mrao", file |-> "b.dds"] >>,
        Iron |-> << [type |-> "color", file |-> "a.png"] >>]
  /\ existingFiles = {"a.png", "b.dds"}
  /\ cachedTextureFiles = <<>>
  /\ cachedTextures = <<>>
  /\ docTextures = <<>>
  /\ materialTextures = [i \in 1 .. Len(gltfMaterials) |-> NoTextures]
  /\ materialBaseColor = [i \in 1 .. Len(gltfMaterials) |-> InitialBaseColor(i)]
  /\ materialHdr = [i \in 1 .. Len(gltfMaterials) |-> InitialHdr(i)]
  /\ setupErrors = 0
  /\ dataDir = FALSE
  /\ texLoop = <<>>
  /\ calls = <<>>
  /\ fileReads = [f \in {"a.png", "b.dds"} |-> 0]
  /\ fileDecodes = [f \in {"a.png", "b.dds"} |-> 0]
  /\ loadCalls = [m \in MaterialIds |-> 0]
  /\ bundleStats = [m \in MaterialIds |->
                      [begun |-> 0, built |-> 0, aborted |-> 0, hits |-> 0]]
  /\ SepUnused
  /\ UvUnused
  /\ RgbaUnused
  /\ HelpersUnused

\* setGameInstallationDirectory during setup, before anything is queued: an
\* invalid directory throws at once and sets nothing
SetGameInstallationDirectory(valid) ==
  /\ pipePc = "idle"
  /\ calls = <<>>
  /\ pendingCommands = <<>>
  /\ ~dataDir
  /\ IF valid
       THEN /\ dataDir' = TRUE
            /\ UNCHANGED setupErrors
       ELSE /\ setupErrors < MaxSetupErrors
            /\ setupErrors' = setupErrors + 1
            /\ UNCHANGED dataDir
  /\ UNCHANGED <<pipePc, pendingCommands, procQueue, gltfMaterials, materialFiles,
                 existingFiles, cachedTextureFiles, cachedTextures, docTextures,
                 materialTextures, materialBaseColor, materialHdr, meshCount,
                 texLoop, calls, fileReads, fileDecodes, loadCalls, bundleStats>>
  /\ UNCHANGED nonPipeVars

\* Whether HdrMaterialsTransform treats a game material as emissive
IsEmissive(gameMaterial) ==
  \/ \E k \in DOMAIN materialFiles[gameMaterial] :
       materialFiles[gameMaterial][k].type = "emissive"
  \/ category[gameMaterial] = "emissive"

\* What HdrMaterialsTransform leaves on an emissive material
materialHdrOf(hdr, baseColor) ==
  [emissiveFactor |->
     IF \E k \in 1 .. 3 : hdr.emissiveFactor[k] > 0
       THEN hdr.emissiveFactor
       ELSE SubSeq(baseColor, 1, 3),
   strength |-> 5]

\* HdrMaterialsTransform: has no await, so it runs as one step
RunHdrMaterials ==
  /\ AtLoopHead
  /\ procQueue # <<>>
  /\ Head(procQueue) = "withHdrEmissive"
  /\ LET pairs == getGltfMaterialsWithGameMaterials
         emissive == {pairs[k].material :
                        k \in {n \in DOMAIN pairs : IsEmissive(pairs[n].gameMaterial)}}
     IN materialHdr' =
          [i \in DOMAIN materialHdr |->
             IF i \in emissive
               THEN materialHdrOf(materialHdr[i], materialBaseColor[i])
               ELSE materialHdr[i]]
  /\ calls' = UpdateCall(Notified(Settled(Started(calls[Len(calls)])),
                                   "transform_next"))
  /\ CommandDone
  /\ UNCHANGED <<pendingCommands, gltfMaterials, materialFiles, existingFiles,
                 cachedTextureFiles, cachedTextures, docTextures, materialTextures,
                 materialBaseColor, meshCount, setupErrors, dataDir, fileReads,
                 fileDecodes, loadCalls, bundleStats>>
  /\ UNCHANGED nonPipeVars

\* ElementSeparationTransform on a document that fails a precondition: it
\* sends a warning and returns
RunSeparationSkipped ==
  /\ AtLoopHead
  /\ procQueue # <<>>
  /\ Head(procQueue) = "withSeparatedElements"
  /\ meshCount # 1 \/ Len(gltfMaterials) = 0
  /\ calls' = UpdateCall(Notified(Settled(Notified(Started(calls[Len(calls)]),
                                                    "warning")),
                                   "transform_next"))
  /\ CommandDone
  /\ UNCHANGED <<pendingCommands, gltfMaterials, materialFiles, existingFiles,
                 cachedTextureFiles, cachedTextures, docTextures, materialTextures,
                 materialBaseColor, materialHdr, meshCount, setupErrors, dataDir,
                 fileReads, fileDecodes, loadCalls, bundleStats>>
  /\ UNCHANGED nonPipeVars

NextTransforms ==
  \/ \E valid \in BOOLEAN : SetGameInstallationDirectory(valid)
  \/ \E command \in TransformCommands : Queue(command)
  \/ SaveToFile
  \/ RunBaseColors
  \/ RunHdrMaterials
  \/ RunSeparationSkipped
  \/ RunThrowingTransform
  \/ BeginTextures
  \/ ResolveMaterial
  \/ LoadTexture
  \/ FinishBundle
  \/ FinishTextures
  \/ WriteFile

SpecTransforms == InitTransforms /\ [][NextTransforms]_vars

\* ------------------------------------------------------------------------
\* Properties of the texture caches and of the command queue
\* ------------------------------------------------------------------------

\* The source files a material definition references
FilesOf(materialId) ==
  {materialFiles[materialId][k].file : k \in DOMAIN materialFiles[materialId]}

\* The textures of the document that were created from a file
TexturesOfFile(textureFile) ==
  {h \in DOMAIN docTextures : docTextures[h].file = textureFile}

\* The handles the cached bundle of a material holds for a file
HandlesFor(materialId, textureFile) ==
  {cachedTextures[materialId][materialFiles[materialId][k].type] :
     k \in {n \in DOMAIN materialFiles[materialId] :
              materialFiles[materialId][n].file = textureFile}}

\* Two different materials reference the file and both have been resolved
SharedResolved(m1, m2, textureFile) ==
  /\ m1 # m2
  /\ m1 \in DOMAIN cachedTextures
  /\ m2 \in DOMAIN cachedTextures
  /\ textureFile \in FilesOf(m1) \cap FilesOf(m2)

\* One read, one cache entry, one texture, the same handle for both
DeDuplicated(m1, m2, textureFile) ==
  /\ fileReads[textureFile] = 1
  /\ textureFile \in DOMAIN cachedTextureFiles
  /\ Cardinality(TexturesOfFile(textureFile)) = 1
  /\ HandlesFor(m1, textureFile) = {cachedTextureFiles[textureFile]}
  /\ HandlesFor(m2, textureFile) = {cachedTextureFiles[textureFile]}

NeededFiles ==
  UNION {FilesOf(getGltfMaterialsWithGameMaterials[k].gameMaterial) :
           k \in DOMAIN getGltfMaterialsWithGameMaterials}

\* C10: when a queued transform throws, the saveToFile call rejects, starts
\* no transform after the failing one and writes no output; loadTexture on
\* a file that does not exist is such a throw, so a missing file is never
\* read and no call that ran withTextures over one writes an output.
C10_FailFast ==
  /\ [](\A k \in DOMAIN calls :
          /\ calls[k].threw =>
               /\ calls[k].result = "rejected"
               /\ calls[k].outputs = 0
               /\ calls[k].started >= 1
          /\ calls[k].started <= Len(calls[k].queue)
          /\ (calls[k].outputs > 0 /\ "withTextures" \in Range(calls[k].queue)) =>
               NeededFiles \subseteq existingFiles)
  /\ [](\A f \in DOMAIN fileReads : f \notin existingFiles => fileReads[f] = 0)
  /\ [][\A k \in DOMAIN calls : calls[k].threw => calls'[k] = calls[k]]_vars

\* A call was rejected by loadTexture on a missing file while a later
\* command of its queue was still waiting
C10_Witness ==
  \E k \in DOMAIN calls :
    /\ calls[k].threw
    /\ calls[k].started < Len(calls[k].queue)
    /\ calls[k].queue[calls[k].started] = "withTextures"
    /\ dataDir
    /\ ~(NeededFiles \subseteq existingFiles)


\* ------------------------------------------------------------------------
\* Properties of the queue and of the material transforms
\* ------------------------------------------------------------------------

\* The places of an event in the events of a call
EventsOf(call, event) == {n \in DOMAIN call.events : call.events[n] = event}

\* The places of a command among the commands a call has started
RunsOf(call, command) == {n \in DOMAIN call.ran : call.ran[n] = command}

\* The command that threw, in a call that was rejected
ThrowingCommand(call) == call.ran[call.started]

\* C11: element separation on a document that has not exactly one mesh, or
\* has no material, sends one WARNING and returns without throwing: it is
\* never the command that rejects a call, and a call that resolves has run
\* every command of its queue, those after the separation included, and has
\* written its output.
C11_SkipKeepsPipelineRunning ==
  \A k \in DOMAIN calls :
    /\ Cardinality(EventsOf(calls[k], "warning")) =
         Cardinality(RunsOf(calls[k], "withSeparatedElements"))
    /\ calls[k].threw => ThrowingCommand(calls[k]) # "withSeparatedElements"
    /\ calls[k].result = "resolved" =>
         /\ calls[k].ran = calls[k].queue
         /\ calls[k].outputs = 1

\* A call resolved and wrote its output after a skipped separation that had
\* another command queued behind it
C11_Witness ==
  \E k \in DOMAIN calls :
    /\ calls[k].result = "resolved"
    /\ calls[k].outputs = 1
    /\ Len(calls[k].queue) >= 2
    /\ calls[k].queue[1] = "withSeparatedElements"
    /\ calls[k].ran = calls[k].queue
    /\ EventsOf(calls[k], "warning") # {}

\* The number of bundle computations of a material that are in progress
InProgress(materialId) ==
  bundleStats[materialId].begun - bundleStats[materialId].built
  - bundleStats[materialId].aborted

Unmatched == {i \in DOMAIN gltfMaterials : gltfMaterials[i] \notin DOMAIN materialFiles}

\* The glTF materials with an entry in the material table
Matched == DOMAIN gltfMaterials \ Unmatched

\* The runs of a command in a call that returned without throwing
Completed(call, command) ==
  {n \in RunsOf(call, command) : n <= call.settled /\ ~(call.threw /\ n = call.started)}

\* C14: a glTF material with no entry in the material table keeps its base
\* colour, textures and emissive settings whatever runs; the three material
\* transforms send no warning and do not throw because of it; and once one of
\* them has completed, every material that has an entry has been processed.
C14_LookupMissSkipped ==
  /\ \A i \in Unmatched :
       /\ materialBaseColor[i] = InitialBaseColor(i)
       /\ materialTextures[i] = NoTextures
       /\ materialHdr[i] = InitialHdr(i)
  /\ \A k \in DOMAIN calls :
       /\ Cardinality(EventsOf(calls[k], "warning")) =
            Cardinality(RunsOf(calls[k], "withSeparatedElements"))
       /\ calls[k].threw =>
            \/ ThrowingCommand(calls[k]) = "queueTransform"
            \/ ThrowingCommand(calls[k]) = "withTextures" /\ ~dataDir
       /\ Completed(calls[k], "withBaseColors") # {} =>
            \A i \in Matched :
              /\ SubSeq(materialBaseColor[i], 1, 3) =
                   (IF albedo[gltfMaterials[i]] = <<>> THEN <<10, 10, 10>>
                    ELSE albedo[gltfMaterials[i]])
              /\ materialBaseColor[i][4] # 0
       /\ Completed(calls[k], "withTextures") # {} =>
            \A i \in Matched :
              /\ gltfMaterials[i] \in DOMAIN cachedTextures
              /\ materialTextures[i] = ApplyTextures(cachedTextures[gltfMaterials[i]])
       /\ Completed(calls[k], "withHdrEmissive") # {} =>
            \A i \in Matched :
              category[gltfMaterials[i]] = "emissive" => materialHdr[i].strength = 5

\* The three material transforms have completed on a document in which a
\* material without an entry comes before one with an entry
C14_Witness ==
  /\ \E i \in Unmatched, j \in Matched : i < j
  /\ \E k \in DOMAIN calls :
       /\ Completed(calls[k], "withBaseColors") # {}
       /\ Completed(calls[k], "withTextures") # {}
       /\ Completed(calls[k], "withHdrEmissive") # {}

\* C19: a missing game directory is reported at setup, before any queued
\* transform starts: no call is rejected by TexturesTransform for a missing
\* directory, which would be an error from inside the queue (every texture
\* file of this specification exists, so TexturesTransform has no other
\* reason to throw).
C19_ConfigurationErrorsAtSetup ==
  \A k \in DOMAIN calls :
    calls[k].threw => ThrowingCommand(calls[k]) # "withTextures"


\* The commands applied so far, over every call of saveToFile
Executed == SumOver(DOMAIN calls, [k \in DOMAIN calls |-> Len(calls[k].ran)])

\* The commands that wait to be applied: those pending and those of the
\* local queue of processQueue, less the one that is being awaited
NotYetApplied ==
  Len(pendingCommands) + Len(procQueue)
  - (IF calls # <<>> /\ calls[Len(calls)].started > calls[Len(calls)].settled
       THEN 1 ELSE 0)

\* C23: no double processing. A call of saveToFile takes the commands that
\* are pending as its queue and leaves none pending before it runs anything;
\* the commands a call has run are the first commands of its queue, each
\* once; and over every step the commands run plus those waiting grow only
\* by the one command a queue() call adds, so no command is run twice. A
\* call that finds nothing newly queued runs no transform.
C23_NoDoubleProcessing ==
  /\ [](\A k \in DOMAIN calls :
          /\ calls[k].started <= Len(calls[k].queue)
          /\ calls[k].ran = SubSeq(calls[k].queue, 1, calls[k].started)
          /\ calls[k].queue = <<>> => calls[k].ran = <<>>)
  /\ [][/\ Len(calls') > Len(calls) =>
             /\ calls'[Len(calls')].queue = pendingCommands
             /\ calls'[Len(calls')].ran = <<>>
             /\ pendingCommands' = <<>>
        /\ Executed' + NotYetApplied' <=
             Executed + NotYetApplied
             + (IF Len(pendingCommands') > Len(pendingCommands) THEN 1 ELSE 0)]_vars

\* A first saveToFile ran the commands queued before it, and a second one
\* with nothing newly queued has resolved without running a transform
C23_Witness ==
  /\ Len(calls) = 2
  /\ calls[1].ran # <<>>
  /\ calls[1].result = "resolved"
  /\ calls[2].queue = <<>>
  /\ calls[2].ran = <<>>
  /\ calls[2].result = "resolved"


\* C24: the rebuilder copies UVs only where the primitive has them: for a
\* default primitive without TEXCOORD_0 the transform partitions the
\* triangles and rebuilds positions and indices, and never fails.
C24_RebuildsWithoutTexcoord == pc # "threw"


\* The events of a call that has sent transform_start, then transform_next n
\* times, then transform_finish if finished
ProgressEvents(n, finished) ==
  <<"transform_start">> \o [k \in 1 .. n |-> "transform_next"]
  \o (IF finished THEN <<"transform_finish">> ELSE <<>>)

\* The commands of a call whose function has returned without throwing
Returned(call) == call.settled - (IF call.threw THEN 1 ELSE 0)

\* C25: the progress events of each processQueue run come in a fixed order:
\* transform_start once, before any command starts; transform_next once for
\* each command that has returned, sent before the next command starts;
\* transform_finish once, after the last command, in a run that resolves. A
\* run in which a command throws has no transform_next for that command and
\* no transform_finish.
C25_ProgressEventsInOrder ==
  \A k \in DOMAIN calls :
    /\ calls[k].events =
         ProgressEvents(Returned(calls[k]), calls[k].result = "resolved")
    /\ calls[k].started <= Returned(calls[k]) + 1
    /\ calls[k].result = "resolved" => Returned(calls[k]) = Len(calls[k].queue)
    /\ calls[k].threw =>
         /\ calls[k].result = "rejected"
         /\ Cardinality(EventsOf(calls[k], "transform_next")) = calls[k].started - 1
         /\ EventsOf(calls[k], "transform_finish") = {}

\* A run resolved after a command, and another run was rejected by its
\* second command
C25_Witness ==
  /\ \E k \in DOMAIN calls :
       calls[k].result = "resolved" /\ Len(calls[k].queue) >= 1
  /\ \E k \in DOMAIN calls : calls[k].threw /\ calls[k].started = 2


\* C26: the slot decides the channel order. In every bundle getGameTextures
\* has stored, the texture of the mrao slot holds channel-swapped data and
\* the texture of any other slot holds data that was not swapped, whatever
\* was loaded before, a file that backs different slots of different
\* materials included.
C26_SlotDecidesChannelOrder ==
  \A materialId \in DOMAIN cachedTextures :
    \A textureType \in DOMAIN cachedTextures[materialId] :
      docTextures[cachedTextures[materialId][textureType]].swapped
        = (textureType = "mrao")


-----------------------------------------------------------------------------
\* The arguments of queued commands (DuMeshTransformer.ts:51-86)

\* Arguments given after the function in one queueTransform call
MaxArguments == 2

\* Commands queued before processQueue runs
MaxCommands == 2

\* The values a caller passes, each a JavaScript value of its own
ArgumentValues == {[text |-> "a"], [text |-> "b"]}

\* A JavaScript array as a value: it is one value, whatever it holds
Array(items) == [items |-> items]

\* The argument lists a caller can give
ArgumentLists ==
  UNION {[1 .. n -> ArgumentValues] : n \in 0 .. MaxArguments}

\* The first parameter of every command function
context == [document |-> "gltfDocument", transformer |-> "this"]

\* queue(command, ...args): the rest parameter collects what follows command
queue(command, args) == [fn |-> command, args |-> args]

\* queueTransform(command, ...args) calls this.queue(command, args): the array
\* of the caller's arguments is the one argument after command
queueTransform(command, args) == queue(command, <<Array(args)>>)

\* A built-in with* method calls this.queue(Transform, ...arguments)
withTransform(command, arguments) == queue(command, arguments)

\* fn.apply(this, [{document, transformer}, ...command.args]): the argument
\* list fn is invoked with
ApplyArguments(command) == <<context>> \o command.args

InitQueue ==
  /\ queuedCommands = <<>>
  /\ applied = <<>>
  /\ SepUnused
  /\ UvUnused
  /\ RgbaUnused
  /\ PipeUnused
  /\ RememberUnused
  /\ IndexUnused

nonQueueVars == <<sepVars, uvVars, rgbaVars, pipeVars, rememberVars, indexVars>>

\* transformer.queueTransform(fn, a1, ..., an) with a custom function
QueueTransform(args) ==
  /\ Len(applied) + Len(queuedCommands) < MaxCommands
  /\ queuedCommands' =
       Append(queuedCommands,
              [command |-> queueTransform("custom", args), given |-> args])
  /\ UNCHANGED applied
  /\ UNCHANGED nonQueueVars

\* A built-in method such as withHdrEmissive(options)
WithTransform(args) ==
  /\ Len(applied) + Len(queuedCommands) < MaxCommands
  /\ Len(args) <= 1
  /\ queuedCommands' =
       Append(queuedCommands,
              [command |-> withTransform("HdrMaterialsTransform", args),
               given |-> args])
  /\ UNCHANGED applied
  /\ UNCHANGED nonQueueVars

\* processQueue: the pending commands are taken and each function is applied
ProcessQueue ==
  /\ queuedCommands # <<>>
  /\ applied' =
       applied \o [k \in DOMAIN queuedCommands |->
                     [fn |-> queuedCommands[k].command.fn,
                      given |-> queuedCommands[k].given,
                      arguments |-> ApplyArguments(queuedCommands[k].command)]]
  /\ queuedCommands' = <<>>
  /\ UNCHANGED nonQueueVars

NextQueue ==
  \/ \E args \in ArgumentLists : QueueTransform(args)
  \/ \E args \in ArgumentLists : WithTransform(args)
  \/ ProcessQueue

SpecQueue == InitQueue /\ [][NextQueue]_vars

\* C27: a function queued with queueTransform(fn, a1, ..., an) is invoked as
\* fn({document, transformer}, a1, ..., an): the context first, then the
\* arguments of the caller in the positions they were given, as for the
\* built-in with* methods.
C27_ArgumentsInGivenPositions ==
  \A n \in DOMAIN applied :
    applied[n].arguments = <<context>> \o applied[n].given


-----------------------------------------------------------------------------
\* rememberMany and its callers (DuMeshTransformer.ts:271-281)

\* rememberMany calls that can be in progress at once, one per caller
MaxCallers == 3

Callers == 1 .. MaxCallers

\* The <<category, key>> pairs the callers ask for
CacheKeys == {<<"textures", "Steel">>, <<"textures", "Iron">>}

\* undefined, as a cached value and as a result
Undefined == 0

\* this.cachedData[category][key]
Cached(key) == IF key \in DOMAIN cachedData THEN cachedData[key] ELSE Undefined

InitRemember ==
  /\ cachedData = <<>>
  /\ callers = [c \in Callers |->
                  [pc |-> "idle", key |-> <<>>, value |-> Undefined,
                   result |-> Undefined]]
  /\ fnRuns = [key \in CacheKeys |-> 0]
  /\ SepUnused
  /\ UvUnused
  /\ RgbaUnused
  /\ PipeUnused
  /\ QueueUnused
  /\ IndexUnused

nonRememberVars == <<sepVars, uvVars, rgbaVars, pipeVars, queueVars, indexVars>>

\* rememberMany(category, key, fn) up to its await: where nothing is cached
\* and there is a producer, fn is invoked and the call waits for its promise;
\* otherwise the call returns what is cached. Each invocation of fn makes a
\* value of its own, named here by its ordinal
RememberMany(c, key, withFn) ==
  /\ callers[c].pc = "idle"
  /\ IF Cached(key) = Undefined /\ withFn
       THEN /\ fnRuns' = [fnRuns EXCEPT ![key] = @ + 1]
            /\ callers' = [callers EXCEPT ![c] =
                             [pc |-> "awaiting", key |-> key,
                              value |-> fnRuns[key] + 1, result |-> Undefined]]
       ELSE /\ callers' = [callers EXCEPT ![c] =
                             [pc |-> "returned", key |-> key,
                              value |-> Undefined, result |-> Cached(key)]]
            /\ UNCHANGED fnRuns
  /\ UNCHANGED cachedData
  /\ UNCHANGED nonRememberVars

\* The promise of fn resolves: the value is stored and returned
Resume(c) ==
  /\ callers[c].pc = "awaiting"
  /\ cachedData' = (callers[c].key :> callers[c].value) @@ cachedData
  /\ callers' = [callers EXCEPT ![c].pc = "returned", ![c].result = callers[c].value]
  /\ UNCHANGED fnRuns
  /\ UNCHANGED nonRememberVars

\* The promise of fn rejects: nothing is stored and the call rejects
Reject(c) ==
  /\ callers[c].pc = "awaiting"
  /\ callers' = [callers EXCEPT ![c].pc = "rejected"]
  /\ UNCHANGED <<cachedData, fnRuns>>
  /\ UNCHANGED nonRememberVars

NextRemember ==
  \/ \E c \in Callers, key \in CacheKeys, withFn \in BOOLEAN :
       RememberMany(c, key, withFn)
  \/ \E c \in Callers : Resume(c)
  \/ \E c \in Callers : Reject(c)

SpecRemember == InitRemember /\ [][NextRemember]_vars

\* The calls for a key whose producer rejected
RejectedCalls(key) ==
  {c \in Callers : callers[c].pc = "rejected" /\ callers[c].key = key}

\* The calls for a key that invoked fn and have returned its value
ProducingCalls(key) ==
  {c \in Callers : /\ callers[c].pc = "returned"
                   /\ callers[c].key = key
                   /\ callers[c].value # Undefined}

\* C28: rememberMany runs the producer at most once per <<category, key>>
\* under any interleaving: fn is not invoked again for a key while a call
\* for that key is awaiting fn or after one has stored its value, and the
\* calls that returned a value for a key all returned the same one. (A
\* producer that rejected stored nothing and is not counted.)
C28_ProducerRunsOnce ==
  \A key \in CacheKeys :
    /\ fnRuns[key] - Cardinality(RejectedCalls(key)) <= 1
    /\ \A c1, c2 \in ProducingCalls(key) : callers[c1].result = callers[c2].result


-----------------------------------------------------------------------------
\* The index accessor of a rebuilt primitive, for islands of any size
\* (part_004:199-243, 287-325)

\* The largest island or merged structural group that is rebuilt
MaxNewTriangles == 21847

\* Entries looked at from each end of the 16-bit range
ProbeWindow == 8

\* The largest value a Uint16Array entry holds
Uint16Max == 65535

\* Triangle counts of small islands and of islands around 65536 vertices
NewTriangleCounts == {1, 2} \cup (21845 .. MaxNewTriangles)

\* The places of the new accessor that are looked at
Probes(newVertexCount) ==
  {index \in 0 .. newVertexCount - 1 :
     index < ProbeWindow \/ index > Uint16Max - ProbeWindow}

InitIndex ==
  /\ newTriangleCount \in NewTriangleCounts
  /\ newIndex \in Probes(newTriangleCount * triangleSize)
  /\ newScalar = <<>>
  /\ SepUnused
  /\ UvUnused
  /\ RgbaUnused
  /\ PipeUnused
  /\ QueueUnused
  /\ RememberUnused

\* The accessor is filled by the rebuild and one entry of it is read back
RebuildIndices ==
  /\ newScalar = <<>>
  /\ newScalar' =
       <<NewPrimitiveIndices(newTriangleCount * triangleSize)[newIndex + 1]>>
  /\ UNCHANGED <<newTriangleCount, newIndex>>
  /\ UNCHANGED <<sepVars, uvVars, rgbaVars, pipeVars, queueVars, rememberVars>>

NextIndex == RebuildIndices

SpecIndex == InitIndex /\ [][NextIndex]_vars

\* C29: the index accessor of a rebuilt primitive is the identity: entry k
\* holds k for every k below 3 * T, whatever the number T of triangles, also
\* where 3 * T is more than a 16-bit entry can hold.
C29_IndexBufferIsIdentity ==
  newScalar # <<>> => newScalar[1] = newIndex


\* The pixel at column px and row py is in the rectangle of the transformArea
\* call: width columns from x and height rows from y
InRectangle(px, py) ==
  /\ rgbaArea.x <= px /\ px < rgbaArea.x + rgbaArea.width
  /\ rgbaArea.y <= py /\ py < rgbaArea.y + rgbaArea.height

\* C30: transformArea(x, y, width, height, cb) applies cb exactly once to
\* each pixel of the rectangle of that width and height whose top-left pixel
\* is (x, y), clipped to the image, and to no other pixel: when the call has
\* returned, a pixel of the image in the rectangle was transformed once, and
\* one outside it was not touched.
C30_TransformAreaStaysInRectangle ==
  rgbaPc = "done" =>
    \A px \in 1 .. rgbaWidth, py \in 1 .. rgbaHeight :
      LET index == getPixelIndex(px, py)
      IN IF InRectangle(px, py)
           THEN rgbaApplied[index] = 1
           ELSE /\ rgbaApplied[index] = 0
                /\ getPixelByIndex(rgbaBuffer, index)
                     = getPixelByIndex(rgbaOriginal, index)

=============================================================================
